---- MODULE Spec2Model ----
(***************************************************************************)
(* A model of the transcription pipeline of jur7/transcriber: the job      *)
(* tracker (app/models/transcription.py), the background job               *)
(* (app/services/transcription_service.py), the chunk orchestrators of the *)
(* backend clients (app/services/api_clients) and the segmenter            *)
(* (app/services/file_service.py).                                         *)
(*                                                                         *)
(* Three specifications share the variables:                               *)
(*   Spec     one job from the upload request to the end of                *)
(*            process_transcription, with the chunk workers;               *)
(*   SpecLog  the progress log of one job, appended to by several threads; *)
(*   SpecSeg  the segmenter: the cut-point plan and the physical split.    *)
(* Texts are sequences of one-character strings, so that strip and join    *)
(* are computed as the code computes them.                                 *)
(***************************************************************************)
EXTENDS Integers, Sequences, FiniteSets, TLC

\* ---------------------------------------------------------------- bounds
\* most nominal cut points of an asset of a job (Spec)
MaxNominal == 1
\* largest configured OPENAI_MAX_CONCURRENCY / GEMINI_MAX_CONCURRENCY (Spec)
MaxConc == 2

\* ------------------------------------------------------ program constants
CHUNK_LENGTH_MS == 500000
CHUNK_MIN_LENGTH_MS == 20000
max_retries == 3

\* ------------------------------------------------------------------ texts
\* Python None for an Optional[str], and a present string
None == [ok |-> FALSE, text |-> <<>>]
Some(t) == [ok |-> TRUE, text |-> t]

IsSpace(c) == c = " "

RECURSIVE LStrip(_)
LStrip(s) == IF s # <<>> /\ IsSpace(Head(s)) THEN LStrip(Tail(s)) ELSE s

RECURSIVE RStrip(_)
RStrip(s) ==
    IF s # <<>> /\ IsSpace(s[Len(s)]) THEN RStrip(SubSeq(s, 1, Len(s) - 1)) ELSE s

\* str.strip()
Strip(s) == RStrip(LStrip(s))

\* `text.strip() if text else ""`
StripOrEmpty(t) == IF t # <<>> THEN Strip(t) ELSE <<>>

\* a filter that keeps the empty strings
KeepAll(rs) == [i \in 1..Len(rs) |-> rs[i].text]

\* filter(None, results): drops None and the empty string
RECURSIVE FilterNone(_)
FilterNone(rs) ==
    IF rs = <<>> THEN <<>>
    ELSE IF Head(rs).ok /\ Head(rs).text # <<>>
         THEN <<Head(rs).text>> \o FilterNone(Tail(rs))
         ELSE FilterNone(Tail(rs))

\* " ".join(parts)
RECURSIVE JoinSpace(_)
JoinSpace(parts) ==
    IF parts = <<>> THEN <<>>
    ELSE IF Len(parts) = 1 THEN Head(parts)
    ELSE Head(parts) \o <<" ">> \o JoinSpace(Tail(parts))

\* " ".join(filter(None, results))
Aggregate(rs) == JoinSpace(FilterNone(rs))

Min(a, b) == IF a < b THEN a ELSE b
Max(a, b) == IF a > b THEN a ELSE b

\* a backoff that grows by one second per attempt
Pow2_linear(n) == n + 1

RECURSIVE Pow2(_)
Pow2(n) == IF n = 0 THEN 1 ELSE 2 * Pow2(n - 1)


\* -------------------------------------------------------------- segmenter
CHUNK_SPLIT_BACK_WINDOW_SEC == 45
CHUNK_SPLIT_FORWARD_WINDOW_SEC == 15

\* file_service.py 783-788: nominal cut points at multiples of chunk_length_ms
RECURSIVE NominalFrom(_, _)
NominalFrom(p, total_len_ms) ==
    IF p < total_len_ms
    THEN <<p>> \o NominalFrom(p + CHUNK_LENGTH_MS, total_len_ms)
    ELSE <<>>

NominalPoints(total_len_ms) == NominalFrom(CHUNK_LENGTH_MS, total_len_ms)

\* file_service.py 916-925: the re-clip loop; last_cut_ms follows every cut,
\* kept or dropped
RECURSIVE ReclipFrom(_, _, _)
ReclipFrom(adjusted, total_len_ms, last_cut_ms) ==
    IF adjusted = <<>> THEN <<>>
    ELSE LET cut_ms == Max(last_cut_ms + 1, Min(Head(adjusted), total_len_ms - 1))
             keep == /\ cut_ms > last_cut_ms + CHUNK_MIN_LENGTH_MS
                     /\ cut_ms < total_len_ms - CHUNK_MIN_LENGTH_MS
         IN  (IF keep THEN <<cut_ms>> ELSE <<>>)
             \o ReclipFrom(Tail(adjusted), total_len_ms, cut_ms)

\* a re-clip that stops after the first cut it keeps
Reclip_first_only(adjusted, total_len_ms) ==
    LET kept == ReclipFrom(adjusted, total_len_ms, 0)
    IN  IF kept = <<>> THEN <<>> ELSE <<Head(kept)>>

Reclip(adjusted, total_len_ms) == ReclipFrom(adjusted, total_len_ms, 0)

\* file_service.py 334-336: the ranges of range(0, total_length, chunk_length_ms)
RECURSIVE PydubRangesFrom(_, _)
PydubRangesFrom(i, total_length) ==
    IF i < total_length
    THEN <<[start_ms |-> i, end_ms |-> Min(i + CHUNK_LENGTH_MS, total_length)]>>
         \o PydubRangesFrom(i + CHUNK_LENGTH_MS, total_length)
    ELSE <<>>

PydubRanges(total_length) == PydubRangesFrom(0, total_length)

\* the time ranges of the chunks a plan cuts an asset into
ChunkRanges(cut_points, total_len_ms) ==
    [i \in 1..(Len(cut_points) + 1) |->
        [start_ms |-> IF i = 1 THEN 0 ELSE cut_points[i - 1],
         end_ms   |-> IF i = Len(cut_points) + 1 THEN total_len_ms ELSE cut_points[i]]]


\* ---- the adaptive silence search.  Noise levels are in tenths of a dB,
\* times in ms.
CHUNK_SPLIT_NOISE_DB == -300
CHUNK_SPLIT_MIN_SILENCE_DUR == 650
CHUNK_SPLIT_STEP_MAX_DB == -200
CHUNK_SPLIT_STEP_MIN_DB == -450
CHUNK_SPLIT_SILENCE_PERCENT_MIN == 3
CHUNK_SPLIT_SILENCE_PERCENT_MAX == 25
\* file_service.py 827, 867: step_db = -5.0 and 5.0
step_db == 50
\* file_service.py 901: min_silence_dur=0.5
short_silence_dur == 500
\* the `< 0.1` of the noise level comparisons (file_service.py 814, 846, 860)
db_eps == 1

\* file_service.py 802-804
point_len_ms(nominal) ==
    LET point_start == Max(0, nominal - CHUNK_SPLIT_BACK_WINDOW_SEC * 1000)
        point_end == nominal + CHUNK_SPLIT_FORWARD_WINDOW_SEC * 1000
    IN  ((point_end - point_start) \div 1000) * 1000

RECURSIVE SumDurations(_)
SumDurations(sil) ==
    IF sil = <<>> THEN 0 ELSE Max(0, Head(sil).duration_ms) + SumDurations(Tail(sil))

\* file_service.py 1030-1062, as the pair the percentage is the ratio of:
\* percent = 100 * num / den
compute_silence_percentage_from_intervals(sil, total_length_ms) ==
    IF total_length_ms <= 0 THEN [num |-> 0, den |-> 1]
    ELSE [num |-> Min(SumDurations(sil), total_length_ms), den |-> total_length_ms]

\* percent < bound, percent >= bound
PercentBelow(pct, bound) == 100 * pct.num < bound * pct.den
PercentAtLeast(pct, bound) == ~PercentBelow(pct, bound)
\* CHUNK_SPLIT_SILENCE_PERCENT_MIN <= percent <= CHUNK_SPLIT_SILENCE_PERCENT_MAX
InBand(pct) ==
    /\ PercentAtLeast(pct, CHUNK_SPLIT_SILENCE_PERCENT_MIN)
    /\ 100 * pct.num <= CHUNK_SPLIT_SILENCE_PERCENT_MAX * pct.den

\* file_service.py 958-969: the first longest silence whose end is in the
\* window; best = -1 stands for None
RECURSIVE BestFrom(_, _, _, _, _)
BestFrom(sil, win_start, win_end, best, best_dur) ==
    IF sil = <<>> THEN [best |-> best, best_dur |-> best_dur]
    ELSE LET s == Head(sil)
         IN  IF /\ s.end_ms >= 0
                /\ win_start <= s.end_ms
                /\ s.end_ms <= win_end
                /\ s.duration_ms > best_dur
             THEN BestFrom(Tail(sil), win_start, win_end, s.end_ms, s.duration_ms)
             ELSE BestFrom(Tail(sil), win_start, win_end, best, best_dur)

\* a candidate search that cuts at the end of the silence
get_best_silence_candidate_end(sil, nominal_point_ms, finish_ms) ==
    IF sil = <<>> THEN nominal_point_ms
    ELSE LET win_start == Max(0, nominal_point_ms - CHUNK_SPLIT_BACK_WINDOW_SEC * 1000)
             win_end == nominal_point_ms + CHUNK_SPLIT_FORWARD_WINDOW_SEC * 1000
             b == BestFrom(sil, win_start, win_end, -1, -1)
             cut_ms == IF b.best = -1 THEN nominal_point_ms ELSE b.best
         IN  Max(0 + 1, Min(cut_ms, finish_ms - 1))

\* file_service.py 932-975; finish_ms is int(finish_time * 1000)
get_best_silence_candidate(sil, nominal_point_ms, finish_ms) ==
    IF sil = <<>> THEN nominal_point_ms
    ELSE LET win_start == Max(0, nominal_point_ms - CHUNK_SPLIT_BACK_WINDOW_SEC * 1000)
             win_end == nominal_point_ms + CHUNK_SPLIT_FORWARD_WINDOW_SEC * 1000
             b == BestFrom(sil, win_start, win_end, -1, -1)
             cut_ms == IF b.best = -1 THEN nominal_point_ms
                       ELSE (2 * b.best - b.best_dur) \div 2
         IN  Max(0 + 1, Min(cut_ms, finish_ms - 1))

\* the time range of a chunk file: segment i of the segment muxer cut at
\* cut_points (file_service.py 520-540), chunk i of the re-encode split
\* (file_service.py 334-336)
chunk_range(file, cut_points, total_len_ms) ==
    IF file.kind = "seg" THEN ChunkRanges(cut_points, total_len_ms)[file.n + 1]
    ELSE PydubRanges(total_len_ms)[file.n]


\* ------------------------------------------------------------ chunk files
\* <base>_chunk_%02d.<ext>, numbered from 0 (file_service.py 262, 569)
SegFile(i) == [kind |-> "seg", n |-> i]
\* <base>_chunk_<i>.mp3, numbered from 1 (file_service.py 339)
PydubFile(i) == [kind |-> "pydub", n |-> i]

SeqToSet(q) == {q[i] : i \in 1..Len(q)}

\* file_service.py 370-391, with os.remove succeeding: every listed path that
\* exists is removed and counted
remove_files(file_paths, on_disk) ==
    [disk  |-> on_disk \ SeqToSet(file_paths),
     count |-> Cardinality(SeqToSet(file_paths) \cap on_disk)]

\* What one run of ffmpeg's segment muxer can do: exit 0 or not, having
\* written the first `written` of the expected files.
FastOutcomes(k) ==
    {[rc_ok |-> TRUE, written |-> k + 1], [rc_ok |-> TRUE, written |-> k],
     [rc_ok |-> FALSE, written |-> 0], [rc_ok |-> FALSE, written |-> 1]}

\* file_service.py 469-581
split_audio_file_fast_ffmpeg(segment_times_ms, fast) ==
    IF segment_times_ms = <<>> \/ \E j \in 1..Len(segment_times_ms) : segment_times_ms[j] <= 0
    THEN [parts |-> <<>>, disk |-> {}]
    ELSE LET expected_count == Len(segment_times_ms) + 1
             on_disk == {SegFile(i) : i \in 0..(fast.written - 1)}
         IN  IF ~fast.rc_ok
             THEN [parts |-> <<>>, disk |-> on_disk]
             ELSE \* created_files: the expected files that exist, in index order
                  [parts |-> [j \in 1..Min(fast.written, expected_count) |-> SegFile(j - 1)],
                   disk  |-> on_disk]

\* What the re-encode split can do: fail to load the asset, or fail to
\* export chunk fail_at (0: every export succeeds).
PydubOutcomes(n) ==
    {[load_ok |-> FALSE, fail_at |-> 0]} \cup {[load_ok |-> TRUE, fail_at |-> j] : j \in 0..n}

\* file_service.py 292-368
split_audio_file_pydup(total_length, pyd) ==
    IF ~pyd.load_ok THEN [chunks |-> <<>>, disk |-> {}]
    ELSE LET n == Len(PydubRanges(total_length))
         IN  IF pyd.fail_at \in 1..n
             THEN \* remove_files(chunk_files); return []
                  [chunks |-> <<>>,
                   disk |-> remove_files([j \in 1..(pyd.fail_at - 1) |-> PydubFile(j)],
                                         {PydubFile(j) : j \in 1..(pyd.fail_at - 1)}).disk]
             ELSE [chunks |-> [j \in 1..n |-> PydubFile(j)],
                   disk |-> {PydubFile(j) : j \in 1..n}]

\* file_service.py 219-288; cut_points is the plan of
\* compute_smart_segment_times_deep, direct says that the extension is one of
\* chunk_direct_format
split_audio_file(direct, total_len_ms, cut_points, fast, pyd) ==
    LET f == split_audio_file_fast_ffmpeg(cut_points, fast)
        p == split_audio_file_pydup(total_len_ms, pyd)
    IN  IF direct /\ cut_points # <<>> /\ f.parts # <<>>
        THEN [chunks |-> f.parts, disk |-> f.disk]
        ELSE [chunks |-> p.chunks,
              disk |-> (IF direct /\ cut_points # <<>> THEN f.disk ELSE {}) \cup p.disk]


\* --------------------------------------------------------- backend clients
Apis == {"gpt4o", "gemini", "whisper", "assemblyai"}
ParallelApis == {"gpt4o", "gemini"}
Languages == {"auto", "en"}

OUTPUT_TEXT_TOKENS_LIMIT == 2048

\* What one backend call can do.  "transient": rate limit, connection or
\* service error, timeout.  "invalid_auth": the backend rejects the request
\* (invalid argument, authentication, permission).  "unexpected": any other
\* exception.  "toklimit": a GPT-4o response whose usage.output_tokens is at
\* least OUTPUT_TEXT_TOKENS_LIMIT.
CallKinds(api) ==
    {"ok", "transient", "invalid_auth", "unexpected"}
        \cup (IF api = "gpt4o" THEN {"toklimit"} ELSE {})

\* a retry helper that takes a response at the output token limit as it is
retry_handler_accept_toklimit(api, kind, attempt) ==
    CASE kind \in {"ok", "toklimit"} -> "return"
      [] kind = "transient" -> "retry"
      [] kind = "invalid_auth" -> IF api = "gemini" THEN "break" ELSE "retry"
      [] OTHER -> "break"

\* a retry helper that gives up on the first transient failure
retry_handler_no_retry(api, kind, attempt) ==
    IF kind = "ok" THEN "return" ELSE "break"

\* The except clause of _transcribe_single_chunk_with_retry that takes the
\* outcome of the call of attempt `attempt` (0-based): "return" the text,
\* "retry" (sleep 2 ** attempt, next iteration) or "break".
\* The OpenAI SDK raises a rejected request (BadRequestError,
\* AuthenticationError, PermissionDeniedError) as a subclass of APIError, so
\* `except (APIConnectionError, APIError)` takes it; the Gemini client names
\* InvalidArgument, PermissionDenied and Unauthenticated in a clause that breaks.
retry_handler(api, kind, attempt) ==
    CASE kind = "ok" -> "return"
      [] kind = "toklimit" ->
            IF attempt < max_retries - 1 THEN "retry" ELSE "return"
      [] kind = "transient" -> "retry"
      [] kind = "invalid_auth" -> IF api = "gemini" THEN "break" ELSE "retry"
      [] OTHER -> "break"

\* The text a backend can return for chunk i.
Letter(i) == <<"a", "b", "c", "d", "e", "f">>[i]
RawTexts(i) == {<<Letter(i)>>, <<" ", Letter(i), " ">>, <<>>}

\* --------------------------------------------------------------- variables
VARIABLES
    pc,                 \* position of the request / background thread
    req,                \* the request: api_choice, language_code, is_video
    asset,              \* transcribe(), split_audio_file: the asset's duration and
                        \* whether its extension is in chunk_direct_format
    status,             \* transcriptions.status ("absent": no record)
    statusHist,         \* history: every value stored in status, in order
    transcription_text, \* transcriptions.transcription_text
    detected_language,  \* transcriptions.detected_language ("NULL")
    error_message,      \* transcriptions.error_message ("NULL")
    tempfiles,          \* the upload and the extracted audio on disk
    ret,                \* what api.transcribe returns: text, language
    chunk_files,        \* _split_and_transcribe: the list split_audio_file returned
    disk,               \* chunk files on disk
    removed_count,      \* what remove_files reported (-1: not called)
    max_workers,        \* size of the worker pool
    max_concurrency,    \* the configured OPENAI_/GEMINI_MAX_CONCURRENCY (-1: not read)
    task,               \* per chunk: "queued", "running", "done"
    calls,              \* per chunk: backend calls made, the loop's attempt
    lastErr,            \* per chunk: outcome of the latest backend call
    slept,              \* per chunk: the backoff sleeps, in seconds
    result,             \* per chunk: what the retry helper returned
    results,            \* the orchestrator's results list
    error,              \* the orchestrator's error: 0 or the failed chunk
    consumed,           \* the chunks whose results the orchestrator took, in order
    \* ---- the progress log (SpecLog)
    progress_log,       \* transcriptions.progress_log: the list of messages
    log_pc,             \* per thread: where it is in update_job_progress
    current_log,        \* per thread: the list its SELECT read
    appended,           \* per thread: calls of update_job_progress that returned
    \* ---- the segmenter (SpecSeg)
    seg_pc,             \* position in split_audio_file
    seg_asset,          \* the asset: total_len_ms, direct
    nominal_points_ms,  \* compute_smart_segment_times_deep: the nominal points
    adjusted_points_ms, \* the adjusted points so far
    silences,           \* the silences the search holds
    prev_silences,      \* the silences of the pass before
    db,                 \* the loop's noise level, in tenths of a dB
    prev_db,            \* the noise level of the pass before
    cut_point_found,    \* the search's flag
    noise_floor_reached, \* the search's flag
    detect_calls,       \* the detect_silences_ffmpeg calls made for this point
    final_points_ms,    \* the plan compute_smart_segment_times_deep returns
    seg_chunks,         \* the chunk files split_audio_file returns, with ranges
    seg_disk,           \* chunk files on disk after split_audio_file
    \* ---- two plans of one asset (SpecDet)
    detector,           \* what detect_silences_ffmpeg answered, per query
    first_plan,         \* the plan of the first run, once it has returned
    \* ---- the record of a job and its poller (SpecRec)
    rec_pc,             \* where the job is between transcribe_audio and its end
    response,           \* the last answer of get_progress to the poller
    \* ---- the upload directory, shared by the jobs (SpecDir)
    dir_jobs,           \* per job: its id, its temp file, its chunk paths, its position
    upload_dir,         \* the files in TEMP_UPLOADS_DIR: path and the job that wrote it
    \* ---- the chunk loop of the Whisper client (SpecW)
    wh_pc,              \* where _split_and_transcribe is in its loop over the chunks
    requested_language, \* the language_code it was called with
    total_chunks,       \* len(chunk_files)
    transcription_texts,\* the texts of the chunks transcribed so far
    first_chunk_language, \* the language detected in chunk 1 ("" for None)
    wh_sent,            \* the calls of the retry helper: chunk, language, response_format
    \* ---- the legacy server src/backend/app.py (SpecLegacy)
    legacy_jobs,        \* the jobs dictionary, in the order the jobs were registered
    legacy_checked,     \* requests that passed the limit check and have not registered yet
    legacy_requests,    \* /api/transcribe requests received so far
    \* ---- worker processes in init_db_command (SpecLock)
    lock_platform,      \* which of fcntl / msvcrt the import found
    worker_pc,          \* per worker: its position in init_db_command
    releaser,           \* per worker: what _acquire_file_lock returned
    lock_owner,         \* the worker holding the lock on the lock file, 0 for none
    init_needed,        \* per worker: the local init_needed
    has_table,          \* the transcriptions table exists in the database
    initialized_by      \* the workers that ran the schema creation

jobVars == <<pc, req, asset, status, statusHist, transcription_text, detected_language,
             error_message, tempfiles, ret>>
runVars == <<chunk_files, disk, removed_count, max_workers, max_concurrency, task, calls, lastErr,
             slept, result, results, error, consumed>>
logVars == <<progress_log, log_pc, current_log, appended>>
segVars == <<seg_pc, seg_asset, nominal_points_ms, adjusted_points_ms, silences,
             prev_silences, db, prev_db, cut_point_found, noise_floor_reached,
             detect_calls, final_points_ms, seg_chunks, seg_disk, detector, first_plan>>
dirVars == <<dir_jobs, upload_dir>>
recVars == <<rec_pc, response, dirVars>>
whVars == <<wh_pc, requested_language, total_chunks, transcription_texts, first_chunk_language, wh_sent>>
legacyVars == <<legacy_jobs, legacy_checked, legacy_requests>>
lockVars == <<lock_platform, worker_pc, releaser, lock_owner, init_needed, has_table,
              initialized_by>>
sideVars == <<whVars, legacyVars, lockVars>>
vars == <<jobVars, runVars, logVars, segVars, recVars, sideVars>>

NoReq == [api_choice |-> "none", language_code |-> "none", is_video |-> FALSE]
NoAsset == [total_len_ms |-> 0, direct |-> FALSE]

\* no request received yet
JobIdle ==
    /\ pc = "init"
    /\ req = NoReq
    /\ asset = NoAsset
    /\ status = "absent"
    /\ statusHist = <<>>
    /\ transcription_text = None
    /\ detected_language = "NULL"
    /\ error_message = "NULL"
    /\ tempfiles = {}
    /\ ret = [text |-> None, language |-> "NULL"]
    /\ chunk_files = <<>>
    /\ disk = {}
    /\ removed_count = -1
    /\ max_workers = 0
    /\ max_concurrency = -1
    /\ task = <<>>
    /\ calls = <<>>
    /\ lastErr = <<>>
    /\ slept = <<>>
    /\ result = <<>>
    /\ results = <<>>
    /\ error = 0
    /\ consumed = <<>>

\* no progress log, no thread appending
LogIdle ==
    /\ progress_log = <<>>
    /\ log_pc = <<>>
    /\ current_log = <<>>
    /\ appended = <<>>

\* the locals of the silence search between two nominal points
SearchIdle ==
    /\ silences = <<>>
    /\ prev_silences = <<>>
    /\ db = 0
    /\ prev_db = 0
    /\ cut_point_found = FALSE
    /\ noise_floor_reached = FALSE
    /\ detect_calls = <<>>

\* How process_transcription can end (transcription_service.py 169-208): with
\* a text and a language, or in one of the three except clauses, with the
\* message it logs and the message it stores.
Outcome(ok, text, language, detail, stored) ==
    [ok |-> ok, text |-> text, language |-> language, detail |-> detail, stored |-> stored]
NoOutcome == Outcome(FALSE, <<>>, "NULL", "NULL", "NULL")
RecAt(at, sent, outcome) == [at |-> at, sent |-> sent, outcome |-> outcome]

\* no answer of get_progress yet
NoResponse == [ok |-> FALSE]
\* _split_and_transcribe of the Whisper client not entered
WhIdle ==
    /\ wh_pc = "idle"
    /\ requested_language = "none"
    /\ total_chunks = 0
    /\ transcription_texts = <<>>
    /\ first_chunk_language = ""
    /\ wh_sent = <<>>

LegacyIdle ==
    /\ legacy_jobs = <<>>
    /\ legacy_checked = 0
    /\ legacy_requests = 0

LockIdle ==
    /\ lock_platform = "unset"
    /\ worker_pc = <<>>
    /\ releaser = <<>>
    /\ lock_owner = 0
    /\ init_needed = <<>>
    /\ has_table = FALSE
    /\ initialized_by = {}

SideIdle == WhIdle /\ LegacyIdle /\ LockIdle

\* no request for the record yet, no poll
RecIdle ==
    /\ SideIdle
    /\ dir_jobs = <<>>
    /\ upload_dir = {}
    /\ rec_pc = RecAt("idle", 0, NoOutcome)
    /\ response = NoResponse

\* no query answered, no plan returned
NoPlan == [ok |-> FALSE, points |-> <<>>]
DetIdle ==
    /\ detector = <<>>
    /\ first_plan = NoPlan

\* no asset handed to split_audio_file
SegIdle ==
    /\ DetIdle
    /\ RecIdle
    /\ seg_pc = "idle"
    /\ seg_asset = NoAsset
    /\ nominal_points_ms = <<>>
    /\ adjusted_points_ms = <<>>
    /\ SearchIdle
    /\ final_points_ms = <<>>
    /\ seg_chunks = <<>>
    /\ seg_disk = {}

Init == JobIdle /\ LogIdle /\ SegIdle

\* ------------------------------------------------------------- job tracker
\* transcription.py 280-296
create_transcription_job ==
    /\ status' = "pending"
    /\ statusHist' = statusHist \o <<"pending">>
    /\ error_message' = "NULL"
    /\ UNCHANGED <<transcription_text, detected_language>>

\* an update of the status that is not stored
update_job_status_lost(s) ==
    UNCHANGED <<status, statusHist, transcription_text, detected_language, error_message>>

\* transcription.py 322-331
update_job_status(s) ==
    /\ status' = s
    /\ statusHist' = statusHist \o <<s>>
    /\ UNCHANGED <<transcription_text, detected_language, error_message>>

\* a failure that stores the texts of the chunks that succeeded
set_job_error_partial(message) ==
    /\ status' = "error"
    /\ statusHist' = statusHist \o <<"error">>
    /\ error_message' = message
    /\ transcription_text' = Some(Aggregate(result))
    /\ UNCHANGED detected_language

\* a set_job_error whose UPDATE fails: the sqlite3.Error is logged and nothing
\* is stored
set_job_error_unsaved(message) ==
    UNCHANGED <<status, statusHist, transcription_text, detected_language, error_message>>

\* transcription.py 333-343
set_job_error(message) ==
    /\ status' = "error"
    /\ statusHist' = statusHist \o <<"error">>
    /\ error_message' = message
    /\ UNCHANGED <<transcription_text, detected_language>>

\* transcription.py 345-366
finalize_job_success(text, language) ==
    /\ status' = "finished"
    /\ statusHist' = statusHist \o <<"finished">>
    /\ transcription_text' = Some(text)
    /\ detected_language' = language
    /\ error_message' = "NULL"


\* ------------------------------------------------- the job: request, thread
\* the durations of the assets of Spec: 400 s, and k * 500 s + 10 s or + 400 s
DurSet ==
    {400000} \cup {k * CHUNK_LENGTH_MS + off : k \in 1..MaxNominal, off \in {10000, 400000}}

\* where the adaptive silence search of SpecSeg can leave a cut, relative to
\* its nominal point: the back end of the window, the nominal point, the
\* forward end
SearchOffsets ==
    {0 - CHUNK_SPLIT_BACK_WINDOW_SEC * 1000, 0, CHUNK_SPLIT_FORWARD_WINDOW_SEC * 1000}

MSG_CONFIG == "Configuration or Input Error"
MSG_UNEXPECTED == "An unexpected internal error occurred."

\* The requests of Spec: every backend with every language; video uploads
\* for the sequential backends only, whose runs are the short ones.
Requests ==
    {[api_choice |-> api, language_code |-> lang, is_video |-> video] :
        api \in Apis, lang \in Languages, video \in BOOLEAN}
    \ {r \in [api_choice : ParallelApis, language_code : Languages, is_video : {TRUE}] : TRUE}

\* api/transcriptions.py 20-90: save the upload, create the record, start the
\* background thread
transcribe_audio ==
    /\ pc = "init"
    /\ \E r \in Requests : req' = r
    /\ tempfiles' = {"upload"}
    /\ create_transcription_job
    /\ pc' = "start"
    /\ UNCHANGED <<asset, ret, runVars>>
    /\ UNCHANGED <<logVars, segVars, recVars, sideVars>>

\* transcription_service.py 94-101
StartProcessing ==
    /\ pc = "start"
    /\ update_job_status("processing")
    /\ pc' = IF req.is_video THEN "extract" ELSE "get_api"
    /\ UNCHANGED <<req, asset, tempfiles, ret, runVars>>
    /\ UNCHANGED <<logVars, segVars, recVars, sideVars>>

\* transcription_service.py 103-122, 201-208
ExtractAudio ==
    /\ pc = "extract"
    /\ \E extracted \in BOOLEAN :
          IF extracted
          THEN /\ tempfiles' = tempfiles \cup {"extracted"}
               /\ pc' = "get_api"
               /\ UNCHANGED <<status, statusHist, transcription_text,
                              detected_language, error_message>>
          ELSE /\ set_job_error(MSG_UNEXPECTED)
               /\ pc' = "finally"
               /\ \E written \in BOOLEAN :
                     tempfiles' = IF written THEN tempfiles \cup {"partial"}
                                  ELSE tempfiles
    /\ UNCHANGED <<req, asset, ret, runVars>>
    /\ UNCHANGED <<logVars, segVars, recVars, sideVars>>

\* transcription_service.py 47-80, 141, 188-193
GetApi ==
    /\ pc = "get_api"
    /\ \E configured \in BOOLEAN :
          IF configured
          THEN /\ pc' = "transcribe"
               /\ UNCHANGED <<status, statusHist, transcription_text,
                              detected_language, error_message>>
          ELSE /\ set_job_error(MSG_CONFIG)
               /\ pc' = "finally"
    /\ UNCHANGED <<req, asset, tempfiles, ret, runVars>>
    /\ UNCHANGED <<logVars, segVars, recVars, sideVars>>

\* the condition under which transcribe() delegates to _split_and_transcribe
\* (openai_gpt4o.py 82, gemini.py 141, openai_whisper.py 89)
NeedsSplit(api, large, total_len_ms) ==
    \/ api \in ParallelApis /\ (large \/ total_len_ms > CHUNK_LENGTH_MS)
    \/ api = "whisper" /\ large

\* the entry of api.transcribe (openai_gpt4o.py 70-91 and its siblings)
ApiTranscribe ==
    /\ pc = "transcribe"
    /\ \E exists \in BOOLEAN, large \in BOOLEAN, D \in DurSet, direct \in BOOLEAN :
          /\ req.is_video => direct
          /\ IF ~exists
             THEN /\ ret' = [text |-> None, language |-> "NULL"]
                  /\ pc' = "check"
                  /\ UNCHANGED asset
             ELSE IF NeedsSplit(req.api_choice, large, D)
             THEN /\ asset' = [total_len_ms |-> D, direct |-> direct]
                  /\ pc' = "split"
                  /\ UNCHANGED ret
             ELSE /\ pc' = "single"
                  /\ UNCHANGED <<asset, ret>>
    /\ UNCHANGED <<req, status, statusHist, transcription_text, detected_language,
                   error_message, tempfiles, runVars>>
    /\ UNCHANGED <<logVars, segVars, recVars, sideVars>>

\* config.py 21
SUPPORTED_LANGUAGE_CODES == {"en", "nl", "fr", "es", "ru"}

\* the language transcribe() and _split_and_transcribe report; a code that
\* is not supported makes the single-file Whisper call detect the language
\* (openai_whisper.py 129-138)
\* (openai_gpt4o.py 122-129, 268-275; openai_whisper.py 158-165, 305-312;
\* assemblyai.py 105-115); detected is what the backend detected, "" if nothing
final_language(api, requested, detected, chunked) ==
    IF api = "whisper" /\ ~chunked /\ requested \notin SUPPORTED_LANGUAGE_CODES \cup {"auto"}
    THEN detected
    ELSE IF requested # "auto" THEN requested
    ELSE IF api \in ParallelApis THEN "en"
    ELSE IF api = "whisper" /\ ~chunked THEN detected
    ELSE IF detected # "" THEN detected ELSE "en"

DetectedLangs == {"english", ""}


\* ------------------------------------------------------- the retry helper
\* One iteration of `for attempt in range(max_retries)` of
\* _transcribe_single_chunk_with_retry for chunk i: the backend call, the
\* except clause that takes its outcome, the backoff sleep, and the return of
\* None when the loop is left without a text.
transcribe_attempt(api, i, kind, raw) ==
    LET attempt == calls[i]
        h == retry_handler(api, kind, attempt)
    IN  /\ calls' = [calls EXCEPT ![i] = attempt + 1]
        /\ lastErr' = [lastErr EXCEPT ![i] = kind]
        /\ CASE h = "return" ->
                  /\ result' = [result EXCEPT ![i] = Some(StripOrEmpty(raw))]
                  /\ task' = [task EXCEPT ![i] = "done"]
                  /\ UNCHANGED slept
             [] h = "retry" ->
                  /\ slept' = [slept EXCEPT ![i] = Append(@, Pow2(attempt))]
                  /\ IF attempt + 1 < max_retries
                     THEN UNCHANGED <<task, result>>
                     ELSE /\ task' = [task EXCEPT ![i] = "done"]
                          /\ result' = [result EXCEPT ![i] = None]
             [] OTHER ->
                  /\ task' = [task EXCEPT ![i] = "done"]
                  /\ result' = [result EXCEPT ![i] = None]
                  /\ UNCHANGED slept

\* a thread that runs the retry helper for chunk i makes its next backend call
BackendCall(i) ==
    /\ i \in DOMAIN task
    /\ task[i] = "running"
    /\ \E kind \in CallKinds(req.api_choice) :
          \* the response text matters only to a call that returns one
          \E raw \in IF retry_handler(req.api_choice, kind, calls[i]) = "return"
                      THEN RawTexts(i) ELSE {<<>>} :
             transcribe_attempt(req.api_choice, i, kind, raw)
    /\ UNCHANGED <<jobVars, chunk_files, disk, removed_count, max_workers, max_concurrency,
                   results, error, consumed>>
    /\ UNCHANGED <<logVars, segVars, recVars, sideVars>>

\* the per-chunk state of a run over n chunks, every chunk in state st
NewRun(n, st) ==
    /\ task' = [i \in 1..n |-> st]
    /\ calls' = [i \in 1..n |-> 0]
    /\ lastErr' = [i \in 1..n |-> "none"]
    /\ slept' = [i \in 1..n |-> <<>>]
    /\ result' = [i \in 1..n |-> None]
    /\ results' = [i \in 1..n |-> None]
    /\ error' = 0
    /\ consumed' = <<>>

\* ------------------------------------------------------ the unsplit asset
\* openai_gpt4o.py 89-119, gemini.py 149-175: the retry helper, chunk 1 of 1,
\* run by the calling thread
SingleWithRetry ==
    /\ pc = "single"
    /\ req.api_choice \in ParallelApis
    /\ NewRun(1, "running")
    /\ pc' = "single_call"
    /\ UNCHANGED <<req, asset, status, statusHist, transcription_text, detected_language,
                   error_message, tempfiles, ret, chunk_files, disk, removed_count,
                   max_workers, max_concurrency>>
    /\ UNCHANGED <<logVars, segVars, recVars, sideVars>>

SingleDone ==
    /\ pc = "single_call"
    /\ task[1] = "done"
    /\ ret' = IF result[1].ok
              THEN [text |-> result[1],
                    language |-> final_language(req.api_choice, req.language_code, "", FALSE)]
              ELSE [text |-> None, language |-> "NULL"]
    /\ pc' = "check"
    /\ UNCHANGED <<req, asset, status, statusHist, transcription_text, detected_language,
                   error_message, tempfiles, runVars>>
    /\ UNCHANGED <<logVars, segVars, recVars, sideVars>>

\* openai_whisper.py 94-220, assemblyai.py 57-149: one backend call, every
\* exception and every error status returns (None, None)
SingleDirect ==
    /\ pc = "single"
    /\ req.api_choice \notin ParallelApis
    /\ \E kind \in CallKinds(req.api_choice), raw \in RawTexts(1), det \in DetectedLangs :
          /\ task' = <<"done">>
          /\ calls' = <<1>>
          /\ lastErr' = <<kind>>
          /\ slept' = << <<>> >>
          /\ result' = <<IF kind = "ok" THEN Some(raw) ELSE None>>
          /\ results' = <<None>>
          /\ error' = 0
          /\ consumed' = <<>>
          /\ ret' = IF kind = "ok"
                    THEN [text |-> Some(raw),
                          language |-> final_language(req.api_choice, req.language_code,
                                                      det, FALSE)]
                    ELSE [text |-> None, language |-> "NULL"]
    /\ pc' = "check"
    /\ UNCHANGED <<req, asset, status, statusHist, transcription_text, detected_language,
                   error_message, tempfiles, chunk_files, disk, removed_count,
                   max_workers, max_concurrency>>
    /\ UNCHANGED <<logVars, segVars, recVars, sideVars>>


\* ------------------------------------------------- _split_and_transcribe
\* a pool with one worker per chunk, whatever the configuration
pool_size_per_chunk(conc, n) == n

\* openai_gpt4o.py 212-213, gemini.py 249-250:
\* max_workers = min(max(1, MAX_CONCURRENCY), total_chunks)
pool_size(conc, n) == Min(Max(1, conc), n)

\* openai_gpt4o.py 201-236, gemini.py 241-273, openai_whisper.py 238-248:
\* split the asset; no chunk raises, which returns (None, None) with nothing
\* to clean up; otherwise the parallel clients size the pool and submit every
\* chunk, the Whisper client enters its loop
SplitAndSubmit ==
    /\ pc = "split"
    /\ \E offs \in [1..Len(NominalPoints(asset.total_len_ms)) -> SearchOffsets],
          conc \in 0..MaxConc :
          LET nominal == NominalPoints(asset.total_len_ms)
              adjusted == [j \in 1..Len(nominal) |-> nominal[j] + offs[j]]
              cut_points == Reclip(adjusted, asset.total_len_ms)
              n_pydub == Len(PydubRanges(asset.total_len_ms))
          IN  \E fast \in FastOutcomes(Len(cut_points)), pyd \in PydubOutcomes(n_pydub) :
                 LET r == split_audio_file(asset.direct, asset.total_len_ms, cut_points,
                                           fast, pyd)
                     n == Len(r.chunks)
                 IN  /\ asset' = NoAsset
                     /\ chunk_files' = r.chunks
                     /\ disk' = r.disk
                     /\ NewRun(n, "queued")
                     /\ IF n = 0
                        THEN /\ ret' = [text |-> None, language |-> "NULL"]
                             /\ pc' = "check"
                             /\ max_workers' = 0
                             /\ max_concurrency' = -1
                        ELSE IF req.api_choice \in ParallelApis
                        THEN /\ max_workers' = pool_size(conc, n)
                             /\ max_concurrency' = conc
                             /\ pc' = "collect"
                             /\ UNCHANGED ret
                        ELSE /\ max_workers' = 1
                             /\ max_concurrency' = -1
                             /\ pc' = "wloop"
                             /\ UNCHANGED ret
    /\ UNCHANGED <<req, status, statusHist, transcription_text, detected_language,
                   error_message, tempfiles, removed_count>>
    /\ UNCHANGED <<logVars, segVars, recVars, sideVars>>

\* A pool thread takes the next queued task (ThreadPoolExecutor: first in,
\* first out, at most max_workers threads).  The pool lives until the `with`
\* block is left, which waits for every submitted task.
StartTask(i) ==
    /\ pc \in {"collect", "shutdown"}
    /\ i \in DOMAIN task
    /\ task[i] = "queued"
    /\ \A j \in 1..(i - 1) : task[j] # "queued"
    /\ Cardinality({j \in DOMAIN task : task[j] = "running"}) < max_workers
    /\ task' = [task EXCEPT ![i] = "running"]
    /\ UNCHANGED <<jobVars, chunk_files, disk, removed_count, max_workers, max_concurrency, calls,
                   lastErr, slept, result, results, error, consumed>>
    /\ UNCHANGED <<logVars, segVars, recVars, sideVars>>

\* a results list filled in the order the futures complete
StoreResult_append(rs, idx, text) ==
    LET free == {j \in DOMAIN rs : ~rs[j].ok}
        first == CHOOSE j \in free : \A k \in free : j <= k
    IN  [rs EXCEPT ![first] = text]

\* openai_gpt4o.py 251, gemini.py 288: results[idx] = text
StoreResult(rs, idx, text) == [rs EXCEPT ![idx] = text]

\* openai_gpt4o.py 238-257, gemini.py 275-293: the body of the as_completed
\* loop for the future of chunk i
Collect(i) ==
    /\ pc = "collect"
    /\ i \in DOMAIN task
    /\ task[i] = "done"
    /\ i \notin SeqToSet(consumed)
    /\ consumed' = Append(consumed, i)
    /\ IF ~result[i].ok
       THEN /\ error' = i
            /\ pc' = "shutdown"
            /\ UNCHANGED results
       ELSE /\ results' = StoreResult(results, i, result[i])
            /\ pc' = IF Len(consumed') = Len(task) THEN "shutdown" ELSE "collect"
            /\ UNCHANGED error
    /\ UNCHANGED <<req, asset, status, statusHist, transcription_text, detected_language,
                   error_message, tempfiles, ret, chunk_files, disk, removed_count,
                   max_workers, max_concurrency, task, calls, lastErr, slept, result>>
    /\ UNCHANGED <<logVars, segVars, recVars, sideVars>>

\* openai_gpt4o.py 221, 259-295, gemini.py 258, 295-321: the `with` block is
\* left once every task has run; then raise or aggregate
Shutdown ==
    /\ pc = "shutdown"
    /\ \A i \in DOMAIN task : task[i] = "done"
    /\ ret' = IF error # 0 \/ \E i \in DOMAIN results : ~results[i].ok
              THEN [text |-> None, language |-> "NULL"]
              ELSE [text |-> Some(Aggregate(results)),
                    language |-> final_language(req.api_choice, req.language_code, "", TRUE)]
    /\ pc' = "cleanup"
    /\ UNCHANGED <<req, asset, status, statusHist, transcription_text, detected_language,
                   error_message, tempfiles, runVars>>
    /\ UNCHANGED <<logVars, segVars, recVars, sideVars>>

\* openai_whisper.py 250-282: the loop calls the retry helper for the next chunk
WhisperStart(i) ==
    /\ pc = "wloop"
    /\ i \in DOMAIN task
    /\ i = Len(consumed) + 1
    /\ task[i] = "queued"
    /\ task' = [task EXCEPT ![i] = "running"]
    /\ UNCHANGED <<jobVars, chunk_files, disk, removed_count, max_workers, max_concurrency, calls,
                   lastErr, slept, result, results, error, consumed>>
    /\ UNCHANGED <<logVars, segVars, recVars, sideVars>>

\* openai_whisper.py 284-331: a failed chunk raises; after the last chunk the
\* texts are aggregated
WhisperNext(i) ==
    /\ pc = "wloop"
    /\ i \in DOMAIN task
    /\ task[i] = "done"
    /\ i \notin SeqToSet(consumed)
    /\ consumed' = Append(consumed, i)
    /\ IF ~result[i].ok
       THEN /\ error' = i
            /\ ret' = [text |-> None, language |-> "NULL"]
            /\ pc' = "cleanup"
            /\ UNCHANGED results
       ELSE /\ results' = [results EXCEPT ![i] = result[i]]
            /\ UNCHANGED error
            /\ IF i = Len(task)
               THEN /\ \E det \in DetectedLangs :
                          ret' = [text |-> Some(Aggregate(SubSeq(results', 1, i))),
                                  language |-> final_language(req.api_choice,
                                                   req.language_code, det, TRUE)]
                    /\ pc' = "cleanup"
               ELSE /\ pc' = "wloop"
                    /\ UNCHANGED ret
    /\ UNCHANGED <<req, asset, status, statusHist, transcription_text, detected_language,
                   error_message, tempfiles, chunk_files, disk, removed_count,
                   max_workers, max_concurrency, task, calls, lastErr, slept, result>>
    /\ UNCHANGED <<logVars, segVars, recVars, sideVars>>

\* openai_gpt4o.py 296-305 and its siblings: the finally clause
Cleanup ==
    /\ pc = "cleanup"
    /\ LET r == remove_files(chunk_files, disk)
       IN  /\ disk' = r.disk
           /\ removed_count' = r.count
    /\ pc' = "check"
    /\ UNCHANGED <<req, asset, status, statusHist, transcription_text, detected_language,
                   error_message, tempfiles, ret, chunk_files, max_workers,
                   max_concurrency, task,
                   calls, lastErr, slept, result, results, error, consumed>>
    /\ UNCHANGED <<logVars, segVars, recVars, sideVars>>


\* a service layer that takes a None text for an empty transcript
CheckResult_none_as_empty ==
    /\ pc = "check"
    /\ finalize_job_success(ret.text.text,
            IF ret.language \notin {"", "NULL"} THEN ret.language
            ELSE req.language_code)
    /\ pc' = "finally"
    /\ UNCHANGED <<req, asset, tempfiles, ret, runVars>>
    /\ UNCHANGED <<logVars, segVars, recVars, sideVars>>

\* transcription_service.py 168-183, 201-208: a None text raises, which ends
\* in set_job_error; otherwise the language is defaulted and the job finalized
CheckResult ==
    /\ pc = "check"
    /\ IF ~ret.text.ok
       THEN set_job_error(MSG_UNEXPECTED)
       ELSE finalize_job_success(ret.text.text,
                IF ret.language \notin {"", "NULL"} THEN ret.language
                ELSE req.language_code)
    /\ pc' = "finally"
    /\ UNCHANGED <<req, asset, tempfiles, ret, runVars>>
    /\ UNCHANGED <<logVars, segVars, recVars, sideVars>>

\* transcription_service.py 209-236: the finally clause removes the upload
\* and the file named by extracted_audio_path; an os.remove that raises
\* OSError leaves its file and only appends a warning (218-222, 232-236).
\* The output a failed extraction wrote is not named by extracted_audio_path
\* (file_service.py 123-129 returns None) and stays.
Finally ==
    /\ pc = "finally"
    /\ \E failed \in SUBSET (tempfiles \cap {"upload", "extracted"}) :
          tempfiles' = failed \cup (tempfiles \ {"upload", "extracted"})
    /\ pc' = "done"
    /\ UNCHANGED <<req, asset, status, statusHist, transcription_text, detected_language,
                   error_message, ret, runVars>>
    /\ UNCHANGED <<logVars, segVars, recVars, sideVars>>

Next ==
    \/ transcribe_audio
    \/ StartProcessing
    \/ ExtractAudio
    \/ GetApi
    \/ ApiTranscribe
    \/ SingleWithRetry
    \/ SingleDone
    \/ SingleDirect
    \/ SplitAndSubmit
    \/ \E i \in 1..(MaxNominal + 1) : StartTask(i)
    \/ \E i \in 1..(MaxNominal + 1) : BackendCall(i)
    \/ \E i \in 1..(MaxNominal + 1) : Collect(i)
    \/ Shutdown
    \/ \E i \in 1..(MaxNominal + 1) : WhisperStart(i)
    \/ \E i \in 1..(MaxNominal + 1) : WhisperNext(i)
    \/ Cleanup
    \/ CheckResult
    \/ Finally

Spec == Init /\ [][Next]_vars

\* Spec with its threads scheduled: the request thread, the background thread
\* of process_transcription and the pool threads are separate threads, every
\* step of the model ends (a backend call or a media tool returns or raises,
\* a time.sleep ends), so a step that can be taken is eventually taken.
SpecLive == Spec /\ WF_vars(Next)


\* ------------------------------------------------ the segmenter, stepwise
\* SpecSeg: split_audio_file on one asset.  Every run of
\* detect_silences_ffmpeg is a step whose outcome is drawn from SilenceLists.

\* most nominal cut points of an asset of SpecSeg
MaxSegNominal == 2
\* most silences one detection pass reports
MaxSilences == 2

\* the durations of the assets of SpecSeg: 400 s, and k * 500 s + 10 s,
\* + 34.75 s (a cut at the end of the window is 20 s before the end) or + 400 s
SegDurs ==
    {400000} \cup {k * CHUNK_LENGTH_MS + off :
                      k \in 1..MaxSegNominal, off \in {10000, 34750, 400000}}

\* The silences a pass can report in the window of a nominal point, as
\* detect_silences_ffmpeg returns them (end and duration, file_service.py
\* 636-646): 1 s ending 30 s before the point, 16 s ending 10 s before it,
\* 2 s ending 4.2 s after it, 9 s ending 15 s after it; none ends after the
\* end of the asset.
SilenceIntervals(nominal, total_len_ms) ==
    {s \in {[end_ms |-> nominal - 30000, duration_ms |-> 1000],
            [end_ms |-> nominal - 10000, duration_ms |-> 16000],
            [end_ms |-> nominal + 4200, duration_ms |-> 2000],
            [end_ms |-> nominal + 15000, duration_ms |-> 9000]} :
        s.end_ms <= total_len_ms}

\* the shortest silences of the 0.5 s pass at the two ends of the window
\* (file_service.py 801-803, 893-901): the cuts furthest from the point
WindowEdgeSilences(nominal, total_len_ms) ==
    {s \in {[end_ms |-> nominal - 44500, duration_ms |-> 500],
            [end_ms |-> nominal + 15000, duration_ms |-> 500]} :
        s.end_ms <= total_len_ms}

\* the silence lists over `intervals`, up to n of them in the order of their ends
OrderedLists(intervals, n) ==
    {q \in UNION {[1..k -> intervals] : k \in 0..n} :
        \A i \in 1..Len(q) : \A j \in 1..Len(q) : i < j => q[i].end_ms < q[j].end_ms}

\* what one run of detect_silences_ffmpeg can return: up to MaxSilences
\* of SilenceIntervals in the order of their ends, or the silences at the
\* ends of the window
SilenceLists(nominal, total_len_ms) ==
    OrderedLists(SilenceIntervals(nominal, total_len_ms), MaxSilences)
        \cup OrderedLists(WindowEdgeSilences(nominal, total_len_ms), 2)

SegAssets == [total_len_ms : SegDurs, direct : BOOLEAN]

InitSeg ==
    /\ JobIdle
    /\ LogIdle
    /\ DetIdle
    /\ RecIdle
    /\ seg_pc = "entry"
    /\ seg_asset \in SegAssets
    /\ nominal_points_ms = <<>>
    /\ adjusted_points_ms = <<>>
    /\ SearchIdle
    /\ final_points_ms = <<>>
    /\ seg_chunks = <<>>
    /\ seg_disk = {}

\* the nominal point the loops of the search work on
CurrentNominal == nominal_points_ms[Len(adjusted_points_ms)]

\* adjusted_points_ms[-1] = cut_ms
SetLast(adjusted, cut_ms) == [adjusted EXCEPT ![Len(adjusted)] = cut_ms]

\* where the search goes once the search for a point has ended: the next
\* nominal point or the re-clip loop (file_service.py 796, 913)
PointDone(adjusted) ==
    IF Len(adjusted) < Len(nominal_points_ms) THEN "point" ELSE "reclip"

\* file_service.py 889: step 4 is tried when the louder loop ended at
\* CHUNK_SPLIT_STEP_MAX_DB without a cut
Step4Route(adjusted, found, pdb) ==
    IF (CHUNK_SPLIT_NOISE_DB = CHUNK_SPLIT_STEP_MAX_DB \/ pdb = CHUNK_SPLIT_STEP_MAX_DB)
       /\ ~found
    THEN [pc |-> "short", db |-> CHUNK_SPLIT_STEP_MAX_DB]
    ELSE [pc |-> PointDone(adjusted), db |-> 0]

\* a step 3 whose loop starts at the initial level again
Step3Route_from_initial(adjusted, nominal, sil, found, pdb) ==
    LET pct == compute_silence_percentage_from_intervals(sil, point_len_ms(nominal))
    IN  IF (sil = <<>> \/ PercentBelow(pct, CHUNK_SPLIT_SILENCE_PERCENT_MIN)) /\ ~found
        THEN [pc |-> "loud", db |-> CHUNK_SPLIT_NOISE_DB]
        ELSE [pc |-> PointDone(adjusted), db |-> 0]

\* file_service.py 854-865: step 3 is entered with no silences or too few,
\* and no cut found; its loop starts one step above the initial level
Step3Route(adjusted, nominal, sil, found, pdb) ==
    LET pct == compute_silence_percentage_from_intervals(sil, point_len_ms(nominal))
    IN  IF (sil = <<>> \/ PercentBelow(pct, CHUNK_SPLIT_SILENCE_PERCENT_MIN)) /\ ~found
        THEN IF /\ CHUNK_SPLIT_NOISE_DB < CHUNK_SPLIT_STEP_MAX_DB + db_eps
                /\ CHUNK_SPLIT_NOISE_DB + step_db <= CHUNK_SPLIT_STEP_MAX_DB
             THEN [pc |-> "loud", db |-> CHUNK_SPLIT_NOISE_DB + step_db]
             ELSE Step4Route(adjusted, found, pdb)
        ELSE [pc |-> PointDone(adjusted), db |-> 0]

\* The locals of the search after a step.  Only the quieter loop reads
\* silences, prev_silences and noise_floor_reached again, and only the loops
\* read db: elsewhere they are dead and kept at their idle values.
SearchState(to, adjusted, sil, psil, pdb, found, floor) ==
    /\ seg_pc' = to.pc
    /\ db' = to.db
    /\ adjusted_points_ms' = adjusted
    /\ cut_point_found' = found
    /\ IF to.pc = "quiet"
       THEN /\ silences' = sil
            /\ prev_silences' = psil
            /\ noise_floor_reached' = floor
       ELSE /\ silences' = <<>>
            /\ prev_silences' = <<>>
            /\ noise_floor_reached' = FALSE
    /\ prev_db' = IF to.pc \in {"quiet", "loud", "short"} THEN pdb ELSE 0

\* file_service.py 225-245, 775-792: the direct formats get a plan; an asset
\* without a nominal point gets the empty plan
BeginSplit ==
    /\ seg_pc = "entry"
    /\ IF seg_asset.direct
       THEN /\ nominal_points_ms' = NominalPoints(seg_asset.total_len_ms)
            /\ seg_pc' = IF nominal_points_ms' = <<>> THEN "split" ELSE "point"
       ELSE /\ seg_pc' = "split"
            /\ UNCHANGED nominal_points_ms
    /\ UNCHANGED <<seg_asset, adjusted_points_ms, silences, prev_silences, db, prev_db,
                   cut_point_found, noise_floor_reached, detect_calls, final_points_ms,
                   seg_chunks, seg_disk, detector, first_plan, jobVars, runVars, logVars,
                   recVars, sideVars>>

\* one call of detect_silences_ffmpeg, as the search made it
DetectCall(noise_db, min_silence_dur) ==
    [noise_db |-> noise_db, min_silence_dur |-> min_silence_dur]

segFrame == <<seg_asset, nominal_points_ms, final_points_ms, seg_chunks, seg_disk,
              first_plan, jobVars, runVars, logVars, recVars, sideVars>>

\* the nominal point the search turns to next (file_service.py 796)
NextNominal == nominal_points_ms[Len(adjusted_points_ms) + 1]

\* file_service.py 796-828: the next nominal point, the initial detection,
\* and its verdict: accept, go quieter, or fall through to step 3
DetectInitialStep(sil) ==
    /\ seg_pc = "point"
    /\ LET nominal == NextNominal
           adjusted == Append(adjusted_points_ms, nominal)
           len == point_len_ms(nominal)
       IN     LET pct == compute_silence_percentage_from_intervals(sil, len)
                  cut_ms == get_best_silence_candidate(sil, nominal,
                                                       seg_asset.total_len_ms)
              IN  /\ detect_calls' =
                        <<DetectCall(CHUNK_SPLIT_NOISE_DB, CHUNK_SPLIT_MIN_SILENCE_DUR)>>
                  /\ IF sil # <<>> /\ (InBand(pct) \/ CHUNK_SPLIT_NOISE_DB
                                          - CHUNK_SPLIT_STEP_MIN_DB < db_eps)
                     THEN SearchState([pc |-> PointDone(adjusted), db |-> 0],
                                      SetLast(adjusted, cut_ms), sil, sil,
                                      CHUNK_SPLIT_NOISE_DB, TRUE, FALSE)
                     ELSE IF /\ sil # <<>>
                             /\ PercentAtLeast(pct, CHUNK_SPLIT_SILENCE_PERCENT_MAX)
                             /\ CHUNK_SPLIT_NOISE_DB - step_db >= CHUNK_SPLIT_STEP_MIN_DB
                     THEN SearchState([pc |-> "quiet", db |-> CHUNK_SPLIT_NOISE_DB - step_db],
                                      adjusted, sil, sil, CHUNK_SPLIT_NOISE_DB, FALSE, FALSE)
                     ELSE SearchState(Step3Route(adjusted, nominal, sil, FALSE,
                                                 CHUNK_SPLIT_NOISE_DB),
                                      adjusted, sil, sil, CHUNK_SPLIT_NOISE_DB, FALSE, FALSE)
    /\ UNCHANGED segFrame

\* file_service.py 828-852: one pass of `while db >= min_db`
DetectQuieterStep(found) ==
    /\ seg_pc = "quiet"
    /\ LET nominal == CurrentNominal
           len == point_len_ms(nominal)
       IN     LET floor == noise_floor_reached \/ (found = <<>> /\ prev_silences # <<>>)
                  sil == IF found = <<>> THEN prev_silences ELSE found
                  pct == compute_silence_percentage_from_intervals(sil, len)
                  cut_ms == get_best_silence_candidate(sil, nominal,
                                                       seg_asset.total_len_ms)
                  next_db == db - step_db
              IN  /\ detect_calls' =
                        Append(detect_calls, DetectCall(db, CHUNK_SPLIT_MIN_SILENCE_DUR))
                  /\ IF /\ sil # <<>>
                        /\ \/ InBand(pct)
                           \/ floor
                           \/ db - CHUNK_SPLIT_STEP_MIN_DB < db_eps
                     THEN \* break
                          SearchState([pc |-> PointDone(adjusted_points_ms), db |-> 0],
                                      SetLast(adjusted_points_ms, cut_ms), sil, sil, prev_db,
                                      TRUE, floor)
                     ELSE IF next_db >= CHUNK_SPLIT_STEP_MIN_DB
                     THEN SearchState([pc |-> "quiet", db |-> next_db],
                                      adjusted_points_ms, sil, sil, db, FALSE, floor)
                     ELSE SearchState(Step3Route(adjusted_points_ms, nominal, sil, FALSE, db),
                                      adjusted_points_ms, sil, sil, db, FALSE, floor)
    /\ UNCHANGED segFrame

\* file_service.py 862-884: one pass of `while db <= max_db`
DetectLouderStep(silences3) ==
    /\ seg_pc = "loud"
    /\ LET nominal == CurrentNominal
           len == point_len_ms(nominal)
       IN     LET pct3 == compute_silence_percentage_from_intervals(silences3, len)
                  cut_ms == get_best_silence_candidate(silences3, nominal,
                                                       seg_asset.total_len_ms)
                  next_db == db + step_db
              IN  /\ detect_calls' =
                        Append(detect_calls, DetectCall(db, CHUNK_SPLIT_MIN_SILENCE_DUR))
                  /\ IF silences3 # <<>> /\ InBand(pct3)
                     THEN \* break
                          SearchState(Step4Route(SetLast(adjusted_points_ms, cut_ms), TRUE,
                                                 prev_db),
                                      SetLast(adjusted_points_ms, cut_ms), <<>>, <<>>,
                                      prev_db, TRUE, FALSE)
                     ELSE IF next_db <= CHUNK_SPLIT_STEP_MAX_DB
                     THEN SearchState([pc |-> "loud", db |-> next_db],
                                      adjusted_points_ms, <<>>, <<>>, db, FALSE, FALSE)
                     ELSE SearchState(Step4Route(adjusted_points_ms, FALSE, db),
                                      adjusted_points_ms, <<>>, <<>>, db, FALSE, FALSE)
    /\ UNCHANGED segFrame

\* file_service.py 889-911: one detection at CHUNK_SPLIT_STEP_MAX_DB with
\* min_silence_dur = 0.5; a cut it gives does not set cut_point_found
DetectShorterStep(silences2) ==
    /\ seg_pc = "short"
    /\ LET nominal == CurrentNominal
           len == point_len_ms(nominal)
       IN     LET pct2 == compute_silence_percentage_from_intervals(silences2, len)
                  cut_ms == get_best_silence_candidate(silences2, nominal,
                                                       seg_asset.total_len_ms)
                  adjusted == IF /\ silences2 # <<>>
                                 /\ PercentBelow(pct2, CHUNK_SPLIT_SILENCE_PERCENT_MAX)
                              THEN SetLast(adjusted_points_ms, cut_ms)
                              ELSE adjusted_points_ms
              IN  /\ detect_calls' =
                        Append(detect_calls, DetectCall(db, short_silence_dur))
                  /\ SearchState([pc |-> PointDone(adjusted), db |-> 0], adjusted,
                                 <<>>, <<>>, prev_db, cut_point_found, FALSE)
    /\ UNCHANGED segFrame

\* the searches of SpecSeg: every run of detect_silences_ffmpeg returns any
\* of SilenceLists
DetectInitial ==
    /\ seg_pc = "point"
    /\ \E sil \in SilenceLists(NextNominal, seg_asset.total_len_ms) : DetectInitialStep(sil)
    /\ UNCHANGED detector

DetectQuieter ==
    /\ seg_pc = "quiet"
    /\ \E found \in SilenceLists(CurrentNominal, seg_asset.total_len_ms) :
          DetectQuieterStep(found)
    /\ UNCHANGED detector

DetectLouder ==
    /\ seg_pc = "loud"
    /\ \E silences3 \in SilenceLists(CurrentNominal, seg_asset.total_len_ms) :
          DetectLouderStep(silences3)
    /\ UNCHANGED detector

DetectShorter ==
    /\ seg_pc = "short"
    /\ \E silences2 \in SilenceLists(CurrentNominal, seg_asset.total_len_ms) :
          DetectShorterStep(silences2)
    /\ UNCHANGED detector

\* file_service.py 913-928: the re-clip loop
ReclipPlan ==
    /\ seg_pc = "reclip"
    /\ final_points_ms' = Reclip(adjusted_points_ms, seg_asset.total_len_ms)
    /\ seg_pc' = "split"
    /\ UNCHANGED <<seg_asset, nominal_points_ms, adjusted_points_ms, silences,
                   prev_silences, db, prev_db, cut_point_found, noise_floor_reached,
                   detect_calls, seg_chunks, seg_disk, detector, first_plan, jobVars,
                   runVars, logVars, recVars, sideVars>>

\* file_service.py 253-288: the fast split at the plan's cut points, the
\* re-encode split when there is no plan or the fast split returned nothing
Materialize ==
    /\ seg_pc = "split"
    /\ \E fast \in FastOutcomes(Len(final_points_ms)),
          pyd \in PydubOutcomes(Len(PydubRanges(seg_asset.total_len_ms))) :
          LET r == split_audio_file(seg_asset.direct, seg_asset.total_len_ms,
                                    final_points_ms, fast, pyd)
          IN  /\ seg_chunks' =
                    [j \in 1..Len(r.chunks) |->
                        [file |-> r.chunks[j],
                         range |-> chunk_range(r.chunks[j], final_points_ms,
                                               seg_asset.total_len_ms)]]
              /\ seg_disk' = r.disk
    /\ seg_pc' = "done"
    /\ UNCHANGED <<seg_asset, nominal_points_ms, adjusted_points_ms, silences,
                   prev_silences, db, prev_db, cut_point_found, noise_floor_reached,
                   detect_calls, final_points_ms, detector, first_plan, jobVars, runVars,
                   logVars, recVars, sideVars>>

NextSeg ==
    \/ BeginSplit
    \/ DetectInitial
    \/ DetectQuieter
    \/ DetectLouder
    \/ DetectShorter
    \/ ReclipPlan
    \/ Materialize

SpecSeg == InitSeg /\ [][NextSeg]_vars

\* split_audio_file runs in one thread and every detect_silences_ffmpeg run
\* returns: a step that is possible is taken
SpecSegLive == SpecSeg /\ WF_vars(NextSeg)


\* ------------------------------------------------------- the progress log
\* SpecLog: the record of one job exists and several threads of the job (the
\* chunk workers, through progress_callback and _update_progress) call
\* update_job_progress.  Every call runs on a connection of its own
\* (app.app_context()), in autocommit mode: the SELECT is one statement, the
\* UPDATE with its commit another, and no lock is held between the two.
\* Spec leaves the messages out: no decision of the job reads the log.

\* most threads appending to the log of one job
MaxLogThreads == 2
\* most messages one thread appends
MaxLogMsgs == 2

LogThreads == 1..MaxLogThreads

\* the n-th message of thread t; thread 0 is create_transcription_job
Msg(t, n) == [thread |-> t, n |-> n]

\* transcription.py 288-291: initial_log = ["Job created."]
initial_log == <<Msg(0, 1)>>

InitLog ==
    /\ JobIdle
    /\ SegIdle
    /\ progress_log = initial_log
    /\ log_pc = [t \in LogThreads |-> "idle"]
    /\ current_log = [t \in LogThreads |-> <<>>]
    /\ appended = [t \in LogThreads |-> 0]

\* transcription.py 302-311: SELECT progress_log, json.loads
SelectLog(t) ==
    /\ log_pc[t] = "idle"
    /\ appended[t] < MaxLogMsgs
    /\ current_log' = [current_log EXCEPT ![t] = progress_log]
    /\ log_pc' = [log_pc EXCEPT ![t] = "selected"]
    /\ UNCHANGED <<progress_log, appended, jobVars, runVars, segVars, recVars, sideVars>>

\* transcription.py 312-315: append, json.dumps, UPDATE, commit; the call returns
UpdateLog(t) ==
    /\ log_pc[t] = "selected"
    /\ progress_log' = Append(current_log[t], Msg(t, appended[t] + 1))
    /\ appended' = [appended EXCEPT ![t] = @ + 1]
    /\ current_log' = [current_log EXCEPT ![t] = <<>>]
    /\ log_pc' = [log_pc EXCEPT ![t] = "idle"]
    /\ UNCHANGED <<jobVars, runVars, segVars, recVars, sideVars>>

NextLog ==
    \/ \E t \in LogThreads : SelectLog(t)
    \/ \E t \in LogThreads : UpdateLog(t)

SpecLog == InitLog /\ [][NextLog]_vars


\* --------------------------------------------- the plan, computed twice
\* SpecDet: compute_smart_segment_times_deep called twice on one asset.  The
\* silence detector is a function of its query: the first time a query is
\* made its answer is drawn from DetLists and remembered in detector, and
\* the same query gets the same answer from then on.

\* the assets of SpecDet: 510 s (one nominal point) and 1400 s (two)
DetDurs == {CHUNK_LENGTH_MS + 10000, 2 * CHUNK_LENGTH_MS + 400000}

\* the arguments of one call of detect_silences_ffmpeg on the asset
\* (file_service.py 802-806)
Query(nominal, noise_db, min_silence_dur) ==
    [noise_db        |-> noise_db,
     min_silence_dur |-> min_silence_dur,
     start_time      |-> Max(0, nominal - CHUNK_SPLIT_BACK_WINDOW_SEC * 1000),
     finish_time     |-> nominal + CHUNK_SPLIT_FORWARD_WINDOW_SEC * 1000]

\* what the detector of SpecDet can report in the window of a nominal point:
\* nothing or one of SilenceIntervals
DetLists(nominal, total_len_ms) ==
    {q \in SilenceLists(nominal, total_len_ms) :
        Len(q) <= 1 /\ \A i \in DOMAIN q : q[i] \in SilenceIntervals(nominal, total_len_ms)}

\* a detector that is not a function of its query
Answers_unstable(q, nominal) == DetLists(nominal, seg_asset.total_len_ms)

\* the answers detect_silences_ffmpeg can give to query q
Answers(q, nominal) ==
    IF q \in DOMAIN detector THEN {detector[q]}
    ELSE DetLists(nominal, seg_asset.total_len_ms)

\* the detector after it answered query q with sil
Remember(q, sil) == (q :> sil) @@ detector

InitDet ==
    /\ JobIdle
    /\ LogIdle
    /\ DetIdle
    /\ RecIdle
    /\ seg_pc = "entry"
    /\ seg_asset \in [total_len_ms : DetDurs, direct : {TRUE}]
    /\ nominal_points_ms = <<>>
    /\ adjusted_points_ms = <<>>
    /\ SearchIdle
    /\ final_points_ms = <<>>
    /\ seg_chunks = <<>>
    /\ seg_disk = {}

DetectInitialSame ==
    /\ seg_pc = "point"
    /\ LET q == Query(NextNominal, CHUNK_SPLIT_NOISE_DB, CHUNK_SPLIT_MIN_SILENCE_DUR)
       IN  \E sil \in Answers(q, NextNominal) :
              DetectInitialStep(sil) /\ detector' = Remember(q, sil)

DetectQuieterSame ==
    /\ seg_pc = "quiet"
    /\ LET q == Query(CurrentNominal, db, CHUNK_SPLIT_MIN_SILENCE_DUR)
       IN  \E found \in Answers(q, CurrentNominal) :
              DetectQuieterStep(found) /\ detector' = Remember(q, found)

DetectLouderSame ==
    /\ seg_pc = "loud"
    /\ LET q == Query(CurrentNominal, db, CHUNK_SPLIT_MIN_SILENCE_DUR)
       IN  \E silences3 \in Answers(q, CurrentNominal) :
              DetectLouderStep(silences3) /\ detector' = Remember(q, silences3)

DetectShorterSame ==
    /\ seg_pc = "short"
    /\ LET q == Query(CurrentNominal, db, short_silence_dur)
       IN  \E silences2 \in Answers(q, CurrentNominal) :
              DetectShorterStep(silences2) /\ detector' = Remember(q, silences2)

\* the first call has returned its plan; the second call starts with fresh
\* locals (file_service.py 774-799)
PlanAgain ==
    /\ seg_pc = "split"
    /\ ~first_plan.ok
    /\ first_plan' = [ok |-> TRUE, points |-> final_points_ms]
    /\ seg_pc' = "entry"
    /\ nominal_points_ms' = <<>>
    /\ adjusted_points_ms' = <<>>
    /\ final_points_ms' = <<>>
    /\ cut_point_found' = FALSE
    /\ detect_calls' = <<>>
    /\ UNCHANGED <<seg_asset, silences, prev_silences, db, prev_db, noise_floor_reached,
                   seg_chunks, seg_disk, detector, jobVars, runVars, logVars, recVars, sideVars>>

NextDet ==
    \/ BeginSplit
    \/ DetectInitialSame
    \/ DetectQuieterSame
    \/ DetectLouderSame
    \/ DetectShorterSame
    \/ ReclipPlan
    \/ PlanAgain

SpecDet == InitDet /\ [][NextDet]_vars


\* ------------------------------------------- one chunked run, three chunks
\* SpecB: the parallel orchestrator on an asset of 1400 s, from the call of
\* _split_and_transcribe to the end of process_transcription.  The backend
\* answers chunk i with the text Letter(i), but for the first call of chunk
\* 2, which fails with a transient error.

\* the asset of the run: 1400 s, three chunks of about 500 s, 500 s and 400 s
ScenarioAsset == [total_len_ms |-> 2 * CHUNK_LENGTH_MS + 400000, direct |-> TRUE]

\* process_transcription has reached _split_and_transcribe of a parallel
\* client (transcription_service.py 97-153, openai_gpt4o.py 82-88)
InitB ==
    /\ pc = "split"
    /\ req \in [api_choice : ParallelApis, language_code : Languages, is_video : {FALSE}]
    /\ asset = ScenarioAsset
    /\ status = "processing"
    /\ statusHist = <<"pending", "processing">>
    /\ transcription_text = None
    /\ detected_language = "NULL"
    /\ error_message = "NULL"
    /\ tempfiles = {"upload"}
    /\ ret = [text |-> None, language |-> "NULL"]
    /\ chunk_files = <<>>
    /\ disk = {}
    /\ removed_count = -1
    /\ max_workers = 0
    /\ max_concurrency = -1
    /\ task = <<>>
    /\ calls = <<>>
    /\ lastErr = <<>>
    /\ slept = <<>>
    /\ result = <<>>
    /\ results = <<>>
    /\ error = 0
    /\ consumed = <<>>
    /\ LogIdle
    /\ SegIdle

\* the backend call of the retry helper for chunk i, with the backend of the
\* scenario
ScenarioCall(i) ==
    /\ i \in DOMAIN task
    /\ task[i] = "running"
    /\ transcribe_attempt(req.api_choice, i,
                           IF i = 2 /\ calls[i] = 0 THEN "transient" ELSE "ok",
                           <<Letter(i)>>)
    /\ UNCHANGED <<jobVars, chunk_files, disk, removed_count, max_workers,
                   max_concurrency, results, error, consumed>>
    /\ UNCHANGED <<logVars, segVars, recVars, sideVars>>

NextB ==
    \/ SplitAndSubmit
    \/ \E i \in 1..3 : StartTask(i)
    \/ \E i \in 1..3 : ScenarioCall(i)
    \/ \E i \in 1..3 : Collect(i)
    \/ Shutdown
    \/ Cleanup
    \/ CheckResult
    \/ Finally

SpecB == InitB /\ [][NextB]_vars


\* ------------------------------------------- the record of a job, polled
\* SpecRec: the record of one job from create_transcription_job to the end
\* of process_transcription, as its status and its progress log are written,
\* and a poller that calls get_progress until an answer says finished.  The
\* entries come from the job's own thread (the workers of a chunked run have
\* ended when the outcome is known) and every statement on the database
\* succeeds.  A log entry is the tuple of the parts of its f-string.

\* most progress messages between the start of the job and its outcome
MaxProgress == 2

\* transcription.py 288: initial_log = json.dumps(["Job created."])
created_log == << <<"Job created.">> >>
\* transcription.py 338: f"ERROR: {error_message}"
ErrorEntry(message) == <<"ERROR: ", message>>
\* transcription.py 350
SavedEntry == <<"Transcription successful and saved.">>
\* transcription_service.py 185
FinalizedEntry == <<"Finalized job ", "successfully.">>
\* transcription_service.py 217
DeletedEntry == <<"Deleted temporary upload file: ", "upload">>
\* the n-th message of _update_progress before the outcome
ProgressEntry(n) == <<"progress", Letter(n)>>

\* transcription_service.py 195, 199
MSG_OPENAI_DETAIL == "OpenAI API Error"
MSG_OPENAI == "An error occurred with the OpenAI API."
\* transcription_service.py 202
MSG_UNEXPECTED_DETAIL == "An unexpected error occurred"

\* an update_job_progress whose UPDATE fails: the sqlite3.Error is logged and
\* the log stays as it was
update_job_progress_unsaved(log, message) == log

\* transcription.py 298-320, one thread appending
update_job_progress(log, message) == Append(log, message)

\* the outcomes of SpecRec
Outcomes ==
    {Outcome(TRUE, t, l, "NULL", "NULL") : t \in {<<>>, <<"a">>}, l \in {"en", "auto"}}
    \cup {Outcome(FALSE, <<>>, "NULL", MSG_CONFIG, MSG_CONFIG),
          Outcome(FALSE, <<>>, "NULL", MSG_OPENAI_DETAIL, MSG_OPENAI),
          Outcome(FALSE, <<>>, "NULL", MSG_UNEXPECTED_DETAIL, MSG_UNEXPECTED)}

NoResult ==
    [ok |-> FALSE, transcription_text |-> None, detected_language |-> "NULL",
     status |-> "NULL"]

\* a get_progress that fills in the result for every job that is over
get_progress_result_when_over ==
    LET is_finished == status \in {"finished", "error"}
        is_error == status = "error"
    IN  [ok            |-> TRUE,
         status        |-> status,
         progress      |-> progress_log,
         finished      |-> is_finished,
         error_message |-> IF is_error THEN error_message ELSE "NULL",
         result        |-> IF is_finished
                           THEN [ok |-> TRUE, transcription_text |-> transcription_text,
                                 detected_language |-> detected_language,
                                 status |-> status]
                           ELSE NoResult]

\* transcriptions.py 93-151: the answer of get_progress for the record as it
\* is now, read by one SELECT
get_progress ==
    LET is_finished == status \in {"finished", "error"}
        is_error == status = "error"
    IN  [ok            |-> TRUE,
         status        |-> status,
         progress      |-> progress_log,
         finished      |-> is_finished,
         error_message |-> IF is_error THEN error_message ELSE "NULL",
         result        |-> IF is_finished /\ ~is_error
                           THEN [ok |-> TRUE, transcription_text |-> transcription_text,
                                 detected_language |-> detected_language,
                                 status |-> status]
                           ELSE NoResult]

InitRec ==
    /\ JobIdle
    /\ LogIdle
    /\ SegIdle

recFrame == <<pc, req, asset, tempfiles, ret, runVars, log_pc, current_log, appended,
              segVars, dirVars, sideVars>>

\* transcriptions.py 58-73: the record is created and the thread started
RecCreate ==
    /\ rec_pc.at = "idle"
    /\ create_transcription_job
    /\ progress_log' = created_log
    /\ rec_pc' = RecAt("created", 0, NoOutcome)
    /\ UNCHANGED <<response, recFrame>>

\* transcription_service.py 97: update_job_status(job_id, 'processing')
RecStart ==
    /\ rec_pc.at = "created"
    /\ update_job_status("processing")
    /\ rec_pc' = [rec_pc EXCEPT !.at = "running"]
    /\ UNCHANGED <<progress_log, response, recFrame>>

\* transcription_service.py 99-153: a message of _update_progress, from
\* process_transcription or through progress_callback
RecProgress ==
    /\ rec_pc.at = "running"
    /\ rec_pc.sent < MaxProgress
    /\ progress_log' = update_job_progress(progress_log, ProgressEntry(rec_pc.sent + 1))
    /\ rec_pc' = [rec_pc EXCEPT !.sent = @ + 1]
    /\ UNCHANGED <<status, statusHist, transcription_text, detected_language,
                   error_message, response, recFrame>>

\* transcription_service.py 169-208: the outcome is known.  On a failure
\* the except clause logs its own message first (191, 197, 204).
RecOutcome ==
    /\ rec_pc.at = "running"
    /\ \E o \in Outcomes :
          /\ rec_pc' = [rec_pc EXCEPT !.at = "outcome", !.outcome = o]
          /\ progress_log' = IF o.ok THEN progress_log
                             ELSE update_job_progress(progress_log, ErrorEntry(o.detail))
    /\ UNCHANGED <<status, statusHist, transcription_text, detected_language,
                   error_message, response, recFrame>>

\* transcription.py 338, 350: set_job_error and finalize_job_success append
\* their entry
RecEntry ==
    /\ rec_pc.at = "outcome"
    /\ progress_log' =
          update_job_progress(progress_log,
                              IF rec_pc.outcome.ok THEN SavedEntry
                              ELSE ErrorEntry(rec_pc.outcome.stored))
    /\ rec_pc' = [rec_pc EXCEPT !.at = "entry"]
    /\ UNCHANGED <<status, statusHist, transcription_text, detected_language,
                   error_message, response, recFrame>>

\* transcription.py 339-340, 351-362: the UPDATE of the status, and commit
RecStatus ==
    /\ rec_pc.at = "entry"
    /\ IF rec_pc.outcome.ok
       THEN finalize_job_success(rec_pc.outcome.text, rec_pc.outcome.language)
       ELSE set_job_error(rec_pc.outcome.stored)
    /\ rec_pc' = [rec_pc EXCEPT !.at = IF rec_pc.outcome.ok THEN "saved" ELSE "finally"]
    /\ UNCHANGED <<progress_log, response, recFrame>>

\* transcription_service.py 185: the message after finalize_job_success
RecFinalized ==
    /\ rec_pc.at = "saved"
    /\ progress_log' = update_job_progress(progress_log, FinalizedEntry)
    /\ rec_pc' = [rec_pc EXCEPT !.at = "finally"]
    /\ UNCHANGED <<status, statusHist, transcription_text, detected_language,
                   error_message, response, recFrame>>

\* transcription_service.py 209-221: the finally clause removes the upload
\* and says so
RecFinally ==
    /\ rec_pc.at = "finally"
    /\ progress_log' = update_job_progress(progress_log, DeletedEntry)
    /\ rec_pc' = [rec_pc EXCEPT !.at = "over"]
    /\ UNCHANGED <<status, statusHist, transcription_text, detected_language,
                   error_message, response, recFrame>>

\* transcriptions.py 93-151: one poll; the poller has the job id from
\* transcribe_audio and stops at the first answer that says finished
Poll ==
    /\ status # "absent"
    /\ response.ok => ~response.finished
    /\ response' = get_progress
    /\ UNCHANGED <<jobVars, runVars, logVars, segVars, rec_pc, dirVars, sideVars>>

NextRec ==
    \/ RecCreate
    \/ RecStart
    \/ RecProgress
    \/ RecOutcome
    \/ RecEntry
    \/ RecStatus
    \/ RecFinalized
    \/ RecFinally
    \/ Poll

SpecRec == InitRec /\ [][NextRec]_vars


\* ------------------------------------------------ the language of a job
\* SpecLang: process_transcription from the call of api.transcribe on, for
\* every backend and for the language codes a form can carry: 'auto', a
\* supported code, and a code that is not in SUPPORTED_LANGUAGE_CODES.

\* the language codes of the requests of SpecLang
FormLanguages == Languages \cup {"de"}

InitLang ==
    /\ pc = "api"
    /\ req \in [api_choice : Apis, language_code : FormLanguages, is_video : {FALSE}]
    /\ asset \in [total_len_ms : {400000}, direct : BOOLEAN]
    /\ status = "processing"
    /\ statusHist = <<"pending", "processing">>
    /\ transcription_text = None
    /\ detected_language = "NULL"
    /\ error_message = "NULL"
    /\ tempfiles = {"upload"}
    /\ ret = [text |-> None, language |-> "NULL"]
    /\ chunk_files = <<>>
    /\ disk = {}
    /\ removed_count = -1
    /\ max_workers = 0
    /\ max_concurrency = -1
    /\ task = <<>>
    /\ calls = <<>>
    /\ lastErr = <<>>
    /\ slept = <<>>
    /\ result = <<>>
    /\ results = <<>>
    /\ error = 0
    /\ consumed = <<>>
    /\ LogIdle
    /\ SegIdle

\* transcription_service.py 152-167: api.transcribe returns (None, None), or
\* a text with the language the client reports, from its single-file path or
\* from _split_and_transcribe
TranscribeReturns ==
    /\ pc = "api"
    /\ \E ok \in BOOLEAN, raw \in RawTexts(1), det \in DetectedLangs,
          chunked \in IF req.api_choice = "assemblyai" THEN {FALSE} ELSE BOOLEAN :
          ret' = IF ok
                 THEN [text |-> Some(raw),
                       language |-> final_language(req.api_choice, req.language_code,
                                                   det, chunked)]
                 ELSE [text |-> None, language |-> "NULL"]
    /\ pc' = "check"
    /\ UNCHANGED <<req, asset, status, statusHist, transcription_text, detected_language,
                   error_message, tempfiles, runVars, logVars, segVars, recVars, sideVars>>

NextLang ==
    \/ TranscribeReturns
    \/ CheckResult
    \/ Finally

SpecLang == InitLang /\ [][NextLang]_vars


\* ------------------------------------------- the upload directory, shared
\* SpecDir: two jobs at once in TEMP_UPLOADS_DIR.  Each saves its upload,
\* splits it into chunk files next to it, removes the chunk files and then
\* the upload.  A path is the sequence of the pieces of its name; a job id is
\* a uuid4, of fixed length, and two jobs never get the same one.

\* the two jobs that run at once
DirJobs == {1, 2}
\* most chunk files of one job
MaxDirChunks == 2

\* str(uuid.uuid4()): a fixed number of characters, none of them "_" or "."
JobIds == {<<a, b>> : a \in {"0", "1"}, b \in {"0", "1"}}
\* secure_filename(file.filename) without its extension
FileNames == {<<"x">>, <<"1", "_", "x">>, <<"x", "_chunk_", "1">>}
FileExts == {"mp3", "m4a"}

\* an upload saved under the name of the file alone
temp_filename_unprefixed(job_id, name, ext) == name \o <<".", ext>>

\* transcriptions.py 43: f"{job_id}_{original_filename}"
temp_filename(job_id, name, ext) == job_id \o <<"_">> \o name \o <<".", ext>>

\* os.path.splitext(os.path.basename(file_path))[0] (file_service.py 260-261,
\* 328)
base_name_no_ext(path) == SubSeq(path, 1, Len(path) - 2)

\* %02d of i, and str(i)
TwoDigits(i) == <<"00", "01", "02", "03", "04">>[i + 1]
Digits(i) == <<"0", "1", "2", "3", "4">>[i + 1]

\* file_service.py 262, 339: the chunk paths of a split of file_path into n
\* files: <base>_chunk_%02d.<ext> from 0 for the segment muxer,
\* <base>_chunk_<i>.mp3 from 1 for the re-encode split
chunk_paths(file_path, n, fast) ==
    [i \in 1..n |->
        IF fast
        THEN base_name_no_ext(file_path)
                \o <<"_chunk_", TwoDigits(i - 1), ".", file_path[Len(file_path)]>>
        ELSE base_name_no_ext(file_path) \o <<"_chunk_", Digits(i), ".", "mp3">>]

NoJob == [pc |-> "none", id |-> <<>>, temp |-> <<>>, chunks |-> <<>>]

InitDir ==
    /\ SideIdle
    /\ JobIdle
    /\ LogIdle
    /\ DetIdle
    /\ seg_pc = "idle"
    /\ seg_asset = NoAsset
    /\ nominal_points_ms = <<>>
    /\ adjusted_points_ms = <<>>
    /\ SearchIdle
    /\ final_points_ms = <<>>
    /\ seg_chunks = <<>>
    /\ seg_disk = {}
    /\ rec_pc = RecAt("idle", 0, NoOutcome)
    /\ response = NoResponse
    /\ dir_jobs = [j \in DirJobs |-> NoJob]
    /\ upload_dir = {}

DirFile(path, j) == [path |-> path, owner |-> j]
dirFrame == <<jobVars, runVars, logVars, segVars, rec_pc, response, sideVars>>

\* transcriptions.py 35-48: a job id, the upload saved as <job_id>_<name>
SaveUpload(j) ==
    /\ dir_jobs[j].pc = "none"
    /\ \E id \in JobIds, name \in FileNames, ext \in FileExts :
          /\ \A k \in DOMAIN dir_jobs : dir_jobs[k].id # id
          /\ dir_jobs' = [dir_jobs EXCEPT ![j] =
                 [pc |-> "saved", id |-> id, temp |-> temp_filename(id, name, ext),
                  chunks |-> <<>>]]
          /\ upload_dir' = upload_dir \cup {DirFile(temp_filename(id, name, ext), j)}
    /\ UNCHANGED dirFrame

\* file_service.py 260-270, 328-345: the chunk files are written into the
\* directory of the upload
WriteChunks(j) ==
    /\ dir_jobs[j].pc = "saved"
    /\ \E n \in 1..MaxDirChunks, fast \in BOOLEAN :
          LET paths == chunk_paths(dir_jobs[j].temp, n, fast)
          IN  /\ dir_jobs' = [dir_jobs EXCEPT ![j].pc = "split", ![j].chunks = paths]
              /\ upload_dir' = upload_dir \cup {DirFile(paths[i], j) : i \in 1..n}
    /\ UNCHANGED dirFrame

\* file_service.py 370-391: remove_files(chunk_files) removes every listed
\* path
RemoveChunks(j) ==
    /\ dir_jobs[j].pc = "split"
    /\ upload_dir' = {f \in upload_dir : f.path \notin SeqToSet(dir_jobs[j].chunks)}
    /\ dir_jobs' = [dir_jobs EXCEPT ![j].pc = "cleaned"]
    /\ UNCHANGED dirFrame

\* transcription_service.py 209-221: the upload is removed
RemoveUpload(j) ==
    /\ dir_jobs[j].pc = "cleaned"
    /\ upload_dir' = {f \in upload_dir : f.path # dir_jobs[j].temp}
    /\ dir_jobs' = [dir_jobs EXCEPT ![j].pc = "done"]
    /\ UNCHANGED dirFrame

NextDir ==
    \/ \E j \in DirJobs : SaveUpload(j)
    \/ \E j \in DirJobs : WriteChunks(j)
    \/ \E j \in DirJobs : RemoveChunks(j)
    \/ \E j \in DirJobs : RemoveUpload(j)

SpecDir == InitDir /\ [][NextDir]_vars


\* ------------------------------------------ the chunk loop of the Whisper client
\* SpecW: _split_and_transcribe of the Whisper client after the split, for a
\* request of any language and up to MaxWhChunks chunks.  Each chunk goes
\* through _transcribe_single_chunk_with_retry, taken here by its return
\* value: (text, detected language), or (None, None) when it gave up.
MaxWhChunks == 3

\* what `response.language` of a verbose_json response can be: a language
\* name of the backend, in any case, or nothing
WhisperLanguages == {"english", "English", "german", ""}

\* config.py 23-30
SUPPORTED_LANGUAGE_NAMES ==
    [c \in SUPPORTED_LANGUAGE_CODES \cup {"auto"} |->
        CASE c = "auto" -> "Automatic Detection"
          [] c = "en" -> "English"
          [] c = "nl" -> "Dutch"
          [] c = "fr" -> "French"
          [] c = "es" -> "Spanish"
          [] c = "ru" -> "Russian"]

\* str.strip().lower() on the names and codes that occur
StripLower(name) ==
    CASE name = "Automatic Detection" -> "automatic detection"
      [] name = "English" -> "english"
      [] name = "Dutch" -> "dutch"
      [] name = "French" -> "french"
      [] name = "Spanish" -> "spanish"
      [] name = "Russian" -> "russian"
      [] OTHER -> name

\* openai_whisper.py 37-51: a supported code is itself, a supported name is
\* its code, everything else is "auto"
lang_to_code(lang_name_or_code) ==
    LET l == StripLower(lang_name_or_code)
        by_name == {c \in DOMAIN SUPPORTED_LANGUAGE_NAMES :
                       StripLower(SUPPORTED_LANGUAGE_NAMES[c]) = l}
    IN  IF l \in SUPPORTED_LANGUAGE_CODES THEN l
        ELSE IF by_name # {} THEN CHOOSE c \in by_name : TRUE
        ELSE "auto"

\* openai_whisper.py 255-275: the language parameter and the response format
\* of the call for the next chunk
chunk_call(language_code, first_language, chunk_num) ==
    IF language_code = "auto"
    THEN IF first_language # ""
         THEN [chunk |-> chunk_num, language |-> lang_to_code(first_language),
               response_format |-> "text"]
         ELSE [chunk |-> chunk_num, language |-> "auto",
               response_format |-> "verbose_json"]
    ELSE [chunk |-> chunk_num, language |-> language_code,
          response_format |-> "text"]

whFrame == <<jobVars, runVars, logVars, segVars, recVars, legacyVars, lockVars>>

InitW == JobIdle /\ LogIdle /\ SegIdle

\* openai_whisper.py 89-93, 222-248: transcribe() hands a large file and the
\* requested language over, and the split returned total_chunks chunk files
WhBegin ==
    /\ wh_pc = "idle"
    /\ requested_language' \in FormLanguages
    /\ total_chunks' \in 1..MaxWhChunks
    /\ wh_pc' = "loop"
    /\ UNCHANGED <<transcription_texts, first_chunk_language, wh_sent, whFrame>>

\* openai_whisper.py 250-282: the next chunk in index order, its language
\* parameter and response format, and the call of the retry helper
WhCall ==
    /\ wh_pc = "loop"
    /\ Len(transcription_texts) < total_chunks
    /\ wh_sent' = Append(wh_sent, chunk_call(requested_language, first_chunk_language,
                                              Len(transcription_texts) + 1))
    /\ wh_pc' = "call"
    /\ UNCHANGED <<requested_language, total_chunks, transcription_texts,
                   first_chunk_language, whFrame>>

\* openai_whisper.py 284-297: the helper returned; None aborts the loop, a
\* text is appended, and the detection of chunk 1 is kept when there is one
WhReturn ==
    /\ wh_pc = "call"
    /\ LET call == wh_sent[Len(wh_sent)]
       IN  \E ok \in BOOLEAN, text \in RawTexts(call.chunk),
              chunk_detected_lang \in IF call.response_format = "verbose_json"
                                       THEN WhisperLanguages ELSE {""} :
              IF ~ok
              THEN /\ text = <<>> /\ chunk_detected_lang = ""
                   /\ wh_pc' = "failed"
                   /\ UNCHANGED <<transcription_texts, first_chunk_language>>
              ELSE /\ transcription_texts' =
                         Append(transcription_texts, StripOrEmpty(text))
                   /\ first_chunk_language' =
                         IF /\ requested_language = "auto"
                            /\ call.chunk = 1
                            /\ chunk_detected_lang # ""
                         THEN chunk_detected_lang
                         ELSE first_chunk_language
                   /\ wh_pc' = "loop"
    /\ UNCHANGED <<requested_language, total_chunks, wh_sent, whFrame>>

\* openai_whisper.py 298-322: every chunk has a text, the run returns
WhDone ==
    /\ wh_pc = "loop"
    /\ Len(transcription_texts) = total_chunks
    /\ wh_pc' = "done"
    /\ UNCHANGED <<requested_language, total_chunks, transcription_texts,
                   first_chunk_language, wh_sent, whFrame>>

NextW == WhBegin \/ WhCall \/ WhReturn \/ WhDone

SpecW == InitW /\ [][NextW]_vars

\* ---------------------------------------------------------------------
\* The legacy server (src/backend/app.py): concurrent /api/transcribe
\* requests against the in-memory jobs dictionary. Each "with jobs_lock"
\* block is one step; the request threads interleave between the blocks.
\* ---------------------------------------------------------------------

\* app.py 73
MAX_ACTIVE_JOBS == 10

\* requests received in a run
MaxLegacyRequests == 12

legacyFrame == <<jobVars, runVars, logVars, segVars, recVars, whVars, lockVars>>

\* app.py 491: sum(1 for job in jobs.values() if not job.get('finished', False))
active_jobs(jobs) ==
    Cardinality({j \in DOMAIN jobs : ~jobs[j].finished})

InitLegacy == JobIdle /\ LogIdle /\ SegIdle

\* app.py 472-493: validation of the request, then the limit check under
\* jobs_lock; the lock is released at the end of the with block
legacy_transcribe_check ==
    /\ legacy_requests < MaxLegacyRequests
    /\ legacy_requests' = legacy_requests + 1
    /\ \E valid \in BOOLEAN :
          legacy_checked' = IF valid /\ active_jobs(legacy_jobs) < MAX_ACTIVE_JOBS
                            THEN legacy_checked + 1
                            ELSE legacy_checked
    /\ UNCHANGED <<legacy_jobs, legacyFrame>>

\* app.py 495-512: the upload is saved, then the job is registered under
\* jobs_lock (a second with block) and its thread started
legacy_transcribe_register ==
    /\ legacy_checked > 0
    /\ legacy_checked' = legacy_checked - 1
    /\ legacy_jobs' = Append(legacy_jobs, [finished |-> FALSE])
    /\ UNCHANGED <<legacy_requests, legacyFrame>>

\* app.py 162-166: the finally clause of process_transcription marks the
\* job finished
legacy_process_transcription ==
    /\ \E j \in DOMAIN legacy_jobs :
          /\ ~legacy_jobs[j].finished
          /\ legacy_jobs' = [legacy_jobs EXCEPT ![j].finished = TRUE]
    /\ UNCHANGED <<legacy_checked, legacy_requests, legacyFrame>>

NextLegacy ==
    \/ legacy_transcribe_check
    \/ legacy_transcribe_register
    \/ legacy_process_transcription

SpecLegacy == InitLegacy /\ [][NextLegacy]_vars

\* ---------------------------------------------------------------------
\* init_db_command run by several worker processes at once
\* (src/app/models/transcription.py 74-276).  The check of sqlite_master
\* and the schema creation are separate statements on separate
\* connections, so without the lock the workers interleave between them.
\* ---------------------------------------------------------------------

\* the worker processes started together
MaxWorkers == 3

Workers == 1..MaxWorkers

\* transcription.py 14-22: fcntl imported (POSIX), else msvcrt imported
\* (Windows), else neither
LockPlatforms == {"fcntl", "msvcrt", "neither"}

lockFrame == <<jobVars, runVars, logVars, segVars, recVars, whVars, legacyVars>>

InitLock == JobIdle /\ LogIdle /\ SegIdle

\* transcription.py 81-86: every worker opens <db>.lock for writing
init_db_command ==
    /\ lock_platform = "unset"
    /\ \E platform \in LockPlatforms : lock_platform' = platform
    /\ \E db_has_table \in BOOLEAN : has_table' = db_has_table
    /\ worker_pc' = [w \in Workers |-> "acquire"]
    /\ releaser' = [w \in Workers |-> "unset"]
    /\ init_needed' = [w \in Workers |-> TRUE]
    /\ UNCHANGED <<lock_owner, initialized_by, lockFrame>>

\* transcription.py 24-48: flock(LOCK_EX) blocks until the lock is free;
\* msvcrt.locking(LK_LOCK) retries for ten seconds and then raises OSError;
\* on an exception, and when neither module was imported, the releaser is
\* a no-op and the caller goes on without the lock
acquire_file_lock(w) ==
    /\ worker_pc[w] = "acquire"
    /\ \/ /\ lock_platform \in {"fcntl", "msvcrt"}
          /\ lock_owner = 0
          /\ lock_owner' = w
          /\ releaser' = [releaser EXCEPT ![w] = "unlock"]
       \/ /\ \/ lock_platform = "fcntl"
             \/ lock_platform = "msvcrt" /\ lock_owner # 0
             \/ lock_platform = "neither"
          /\ releaser' = [releaser EXCEPT ![w] = "noop"]
          /\ UNCHANGED lock_owner
    /\ worker_pc' = [worker_pc EXCEPT ![w] = "check"]
    /\ UNCHANGED <<lock_platform, init_needed, has_table, initialized_by, lockFrame>>

\* transcription.py 88-103: init_needed is False iff sqlite_master lists
\* the transcriptions table
check_schema(w) ==
    /\ worker_pc[w] = "check"
    /\ init_needed' = [init_needed EXCEPT ![w] = ~has_table]
    /\ worker_pc' = [worker_pc EXCEPT ![w] = "schema"]
    /\ UNCHANGED <<lock_platform, releaser, lock_owner, has_table, initialized_by,
                   lockFrame>>

\* transcription.py 105-217: with init_needed False only the version
\* metadata is managed; 219-265: otherwise the schema is created
create_schema(w) ==
    /\ worker_pc[w] = "schema"
    /\ IF init_needed[w]
       THEN /\ has_table' = TRUE
            /\ initialized_by' = initialized_by \cup {w}
       ELSE UNCHANGED <<has_table, initialized_by>>
    /\ worker_pc' = [worker_pc EXCEPT ![w] = "release"]
    /\ UNCHANGED <<lock_platform, releaser, lock_owner, init_needed, lockFrame>>

\* transcription.py 269-273: the finally clause calls the releaser
release_file_lock(w) ==
    /\ worker_pc[w] = "release"
    /\ lock_owner' = IF releaser[w] = "unlock" THEN 0 ELSE lock_owner
    /\ worker_pc' = [worker_pc EXCEPT ![w] = "done"]
    /\ UNCHANGED <<lock_platform, releaser, init_needed, has_table, initialized_by,
                   lockFrame>>

NextLock ==
    \/ init_db_command
    \/ \E w \in DOMAIN worker_pc :
          \/ acquire_file_lock(w)
          \/ check_schema(w)
          \/ create_schema(w)
          \/ release_file_lock(w)

SpecLock == InitLock /\ [][NextLock]_vars


\* ================================================================== claims
IsPrefix(s, t) == Len(s) <= Len(t) /\ \A i \in 1..Len(s) : s[i] = t[i]

\* the run went through _split_and_transcribe or the single-chunk call of the
\* GPT-4o and Gemini clients: its chunks are transcribed by
\* _transcribe_single_chunk_with_retry
UsesRetryHelper == req.api_choice \in ParallelApis \/ chunk_files # <<>>

\* api.transcribe has returned
Returned == pc \in {"check", "finally", "done"}

Occurrences(m, log) == Cardinality({i \in 1..Len(log) : log[i] = m})

\* C2 (SpecLog): update_job_progress calls of several threads are
\* serialized: once every call made has returned, the log holds each
\* appended message exactly once.
C2_AppendsSerialized ==
    (\A t \in LogThreads : log_pc[t] = "idle")
        => \A t \in LogThreads : \A n \in 1..appended[t] :
              Occurrences(Msg(t, n), progress_log) = 1

\* a run of the parallel orchestrator in which every chunk succeeded
ParallelRunSucceeded ==
    /\ req.api_choice \in ParallelApis
    /\ chunk_files # <<>>
    /\ pc \in {"cleanup", "check", "finally", "done"}
    /\ \A i \in DOMAIN result : result[i].ok

\* C3 (Spec): when every chunk of a parallel run succeeds, the transcript
\* returned is the join, in index order, of the texts the chunks yielded,
\* which is what transcribing them one after another gives, whatever the
\* number of workers and the order in which the chunks completed.
C3_OrderInvariance ==
    ParallelRunSucceeded => ret.text = Some(Aggregate(result))

\* two chunks, the second taken before the first, joined in index order
C3_Witness ==
    /\ ParallelRunSucceeded
    /\ consumed = <<2, 1>>
    /\ max_workers = 2
    /\ ret.text = Some(<<"a", " ", "b">>)

\* C4 (Spec): once the parallel orchestrator has observed a failed chunk, no
\* chunk task that is still queued is started.
C4_NoStartAfterFailure ==
    [][error # 0 /\ req.api_choice \in ParallelApis
          => \A i \in DOMAIN task : task[i] = "queued" => task'[i] = "queued"]_vars

\* C5 (Spec): in a run of _transcribe_single_chunk_with_retry, a transient
\* failure before the last attempt leaves the chunk running, with a backoff
\* sleep for each failed call; a success on the last attempt yields the text;
\* a transient failure on the last attempt yields None; the text stored for
\* a finished job is the join of the texts the chunks yielded, each unchanged
\* and in index order; a job with a failed chunk ends in error.
C5_RetryRecovery ==
    UsesRetryHelper =>
        /\ \A i \in DOMAIN task :
              /\ lastErr[i] = "transient" /\ calls[i] < max_retries
                    => task[i] = "running" /\ Len(slept[i]) = calls[i]
              /\ calls[i] = max_retries /\ lastErr[i] = "ok"
                    => task[i] = "done" /\ result[i].ok
              /\ calls[i] = max_retries /\ lastErr[i] = "transient"
                    => task[i] = "done" /\ ~result[i].ok
        /\ status = "finished" => transcription_text = Some(Aggregate(result))
        /\ pc = "done" /\ (\E i \in DOMAIN task : task[i] = "done" /\ ~result[i].ok)
              => status = "error"

\* a Gemini chunk, whose only retried failures are transient ones, succeeded
\* on its third call after sleeps of 1 s and 2 s, and the job finished with
\* its text
C5_Witness ==
    /\ req.api_choice = "gemini"
    /\ Len(chunk_files) = 2
    /\ calls[2] = max_retries
    /\ slept[2] = <<1, 2>>
    /\ lastErr[2] = "ok"
    /\ status = "finished"
    /\ transcription_text = Some(<<"a", " ", "b">>)

\* C6 (Spec): a backend call that fails with a non-retryable error (a
\* rejected request, an unexpected exception) ends its chunk at once: the
\* chunk has failed and no backoff sleep follows the call.
C6_NonRetryableAborts ==
    \A i \in DOMAIN task :
        lastErr[i] \in {"invalid_auth", "unexpected"}
            => /\ task[i] = "done"
               /\ ~result[i].ok
               /\ Len(slept[i]) = calls[i] - 1

\* the length of chunk j of the split
ChunkLength(j) == seg_chunks[j].range.end_ms - seg_chunks[j].range.start_ms

\* C7 (SpecSeg): whatever the duration and the silences detected, the cut
\* points of the plan are strictly increasing and the chunks split_audio_file
\* returns tile [0, D): the first starts at 0, each starts where the one
\* before ends, the last ends at D; and every chunk is at least
\* CHUNK_MIN_LENGTH_MS long.
C7_ChunksTileAsset ==
    seg_pc = "done" /\ seg_chunks # <<>> =>
        /\ \A i \in DOMAIN final_points_ms : \A j \in DOMAIN final_points_ms :
              i < j => final_points_ms[i] < final_points_ms[j]
        /\ seg_chunks[1].range.start_ms = 0
        /\ seg_chunks[Len(seg_chunks)].range.end_ms = seg_asset.total_len_ms
        /\ \A j \in 1..(Len(seg_chunks) - 1) :
              seg_chunks[j].range.end_ms = seg_chunks[j + 1].range.start_ms
        /\ \A j \in DOMAIN seg_chunks : ChunkLength(j) >= CHUNK_MIN_LENGTH_MS

\* the asset is shorter than CHUNK_LENGTH_MS + CHUNK_MIN_LENGTH_MS
ShortAsset == seg_asset.total_len_ms < CHUNK_LENGTH_MS + CHUNK_MIN_LENGTH_MS

\* C8 (SpecSeg): an asset shorter than CHUNK_LENGTH_MS + CHUNK_MIN_LENGTH_MS
\* that split_audio_file could split gets the empty plan and is returned as
\* one chunk covering it, and no chunk file is written.
C8_ShortAssetOneChunk ==
    seg_pc = "done" /\ ShortAsset /\ seg_chunks # <<>> =>
        /\ final_points_ms = <<>>
        /\ Len(seg_chunks) = 1
        /\ seg_chunks[1].range = [start_ms |-> 0, end_ms |-> seg_asset.total_len_ms]
        /\ seg_disk = {}

\* C9 (SpecSeg): when the fast split at k cut points leaves fewer than k + 1
\* segment files, none of them stays on disk and none is among the chunks
\* split_audio_file returns.
C9_PartialSplitFails ==
    seg_pc = "done" =>
        LET segs == {f \in seg_disk : f.kind = "seg"}
            handed == {j \in DOMAIN seg_chunks : seg_chunks[j].file.kind = "seg"}
        IN  Cardinality(segs) < Len(final_points_ms) + 1 => segs = {} /\ handed = {}

\* C10 (Spec): when _split_and_transcribe has returned, no chunk file of the
\* run is left on disk, and the count remove_files reported is the number of
\* chunk files of the run.
C10_ChunkFilesRemoved ==
    Returned =>
        /\ disk = {}
        /\ chunk_files # <<>> => removed_count = Len(chunk_files)

C12_LogAppendOnly ==
    [][IsPrefix(progress_log, progress_log')]_vars

\* the backend calls of the run that are in flight
InFlight == {i \in DOMAIN task : task[i] = "running"}

\* C13 (Spec): the pool of a chunked run of the parallel orchestrator has
\* min(max(1, maxConcurrency), number of chunks) workers, and at no moment
\* are more backend calls of the run in flight than that.
C13_PoolBounded ==
    req.api_choice \in ParallelApis /\ chunk_files # <<>> =>
        /\ max_workers = Min(Max(1, max_concurrency), Len(chunk_files))
        /\ Cardinality(InFlight) <= Min(Max(1, max_concurrency), Len(chunk_files))

\* two chunks, a configured concurrency of 0 floored at 1: one call in
\* flight while the other chunk waits in the queue
C13_Witness ==
    /\ req.api_choice \in ParallelApis
    /\ Len(chunk_files) = 2
    /\ max_concurrency = 0
    /\ max_workers = 1
    /\ task = <<"running", "queued">>
    /\ calls[1] = 1

\* api.transcribe is about to return, or has returned, without a chunk to
\* transcribe: the asset was missing or split_audio_file returned no chunk
NothingToTranscribe(p, t) == p = "check" /\ t = <<>>

NonEmptyTexts == SelectSeq([i \in DOMAIN result |-> result[i].text], LAMBDA t : t # <<>>)

\* where the k-th non-empty text starts in a transcript that puts one
\* separator between consecutive texts
RECURSIVE StartOf(_)
StartOf(k) == IF k = 1 THEN 1 ELSE StartOf(k - 1) + Len(NonEmptyTexts[k - 1]) + 1

\* a chunked run in which every chunk succeeded
ChunkedRunSucceeded ==
    /\ chunk_files # <<>>
    /\ pc \in {"cleanup", "check", "finally", "done"}
    /\ \A i \in DOMAIN result : result[i].ok

ReferencesInputProblem(m) == m = MSG_CONFIG

\* chunk 1 of a chunked job failed on a request the backend rejected, and
\* the job is over
FatalChunkJobOver ==
    /\ pc = "done"
    /\ Len(chunk_files) >= 2
    /\ lastErr[1] = "invalid_auth"
    /\ task[1] = "done"
    /\ ~result[1].ok

\* C17 (Spec): a chunked job whose chunk 1 failed with an invalid-argument
\* error ends with the status error, a stored error message that names the
\* input problem, no transcript text, and no chunk file left on disk.
C17_ScenarioC ==
    FatalChunkJobOver =>
        /\ status = "error"
        /\ ~transcription_text.ok
        /\ ReferencesInputProblem(error_message)
        /\ disk = {}

\* the job of the scenario is over: three chunks, a configured concurrency
\* of 2, the first call of chunk 2 failed with a transient error
ScenarioBOver ==
    /\ pc = "done"
    /\ Len(chunk_files) = 3
    /\ max_concurrency = 2

\* C18 (SpecB): with three chunks whose texts are a, b and c, two workers,
\* and a transient failure of the first call of chunk 2, the job ends, in
\* every interleaving of the workers, with the status finished and the
\* transcript "a b c", chunk 2 having been called twice.
C18_ScenarioB ==
    ScenarioBOver =>
        /\ status = "finished"
        /\ transcription_text = Some(<<"a", " ", "b", " ", "c">>)
        /\ calls = <<1, 2, 1>>
        /\ slept = <<<<>>, <<1>>, <<>>>>

\* chunk 3 was collected first and chunk 2, retried, last
C18_Witness ==
    /\ ScenarioBOver
    /\ max_workers = 2
    /\ consumed = <<3, 1, 2>>
    /\ status = "finished"

\* the queries made of the detector in the window of a nominal point
QueriesAt(nominal) ==
    {q \in DOMAIN detector : q.finish_time = nominal + CHUNK_SPLIT_FORWARD_WINDOW_SEC * 1000}

\* the middle of a silence
Midpoint(s) == s.end_ms - s.duration_ms \div 2

\* The detector of scenario A on the asset of 1400 s: at the initial
\* threshold the window of the point at 500 s holds an in-band silence whose
\* middle is at 503.2 s, and every query in the window of the point at
\* 1000 s found nothing.
ScenarioADetector ==
    /\ CHUNK_LENGTH_MS = 500000
    /\ CHUNK_MIN_LENGTH_MS = 20000
    /\ seg_asset.total_len_ms = 1400000
    /\ LET q1 == Query(500000, CHUNK_SPLIT_NOISE_DB, CHUNK_SPLIT_MIN_SILENCE_DUR)
       IN  /\ q1 \in DOMAIN detector
           /\ InBand(compute_silence_percentage_from_intervals(detector[q1],
                                                               point_len_ms(500000)))
           /\ \E i \in DOMAIN detector[q1] : Midpoint(detector[q1][i]) = 503200
    /\ QueriesAt(1000000) # {}
    /\ \A q \in QueriesAt(1000000) : detector[q] = <<>>

\* C19 (SpecDet): scenario A.  For the asset of 1400 s with a target of
\* 500 s and a minimum of 20 s, an in-band silence with its middle at 503.2 s
\* in the window of the first nominal point and no silence found at any
\* threshold in the window of the second, the plan is exactly
\* <<503200, 1000000>>, which gives 3 chunks.
C19_ScenarioA ==
    ScenarioADetector /\ seg_pc = "split" =>
        /\ final_points_ms = <<503200, 1000000>>
        /\ Len(ChunkRanges(final_points_ms, seg_asset.total_len_ms)) = 3

\* the plan is out; the search at the second point went through the initial
\* level, both louder levels and the shorter minimum duration
C19_Witness ==
    /\ ScenarioADetector
    /\ seg_pc = "split"
    /\ Cardinality(QueriesAt(1000000)) = 4
    /\ final_points_ms = <<503200, 1000000>>

InBandPass(nominal) ==
    \E q \in QueriesAt(nominal) :
        /\ detector[q] # <<>>
        /\ InBand(compute_silence_percentage_from_intervals(detector[q],
                                                            point_len_ms(nominal)))

\* C21 (SpecDet): the search moves a cut off its nominal point only when a
\* detection pass in the window of that point measured a silence fraction
\* inside [3 %, 25 %]; when no pass did, the cut is the nominal point.
C21_MovedOnlyInBand ==
    \A k \in DOMAIN adjusted_points_ms :
        adjusted_points_ms[k] # nominal_points_ms[k] => InBandPass(nominal_points_ms[k])

\* the entries of a log
Entries(log) == {log[i] : i \in DOMAIN log}
\* an entry whose text holds message
Holds(entry, message) == \E j \in DOMAIN entry : entry[j] = message

C23_StoredLanguage ==
    status = "finished" =>
        /\ req.language_code # "auto" => detected_language = req.language_code
        /\ req.language_code = "auto" =>
              detected_language \in (DetectedLangs \ {""}) \cup {"en"}

\* the paths job j has created: its upload and its chunk files
JobPaths(j) == SeqToSet(dir_jobs[j].chunks) \cup
               (IF dir_jobs[j].pc = "none" THEN {} ELSE {dir_jobs[j].temp})

\* C24 (SpecDir): the chunk files of a run are its own.  For two jobs with
\* distinct ids the sets of chunk paths are disjoint, no chunk path of one
\* is the upload of the other, and no file in the directory was written by
\* two jobs, so no job overwrites or removes a file of another.
C24_ChunkFilesOwned ==
    /\ \A j, k \in DOMAIN dir_jobs :
          j # k => SeqToSet(dir_jobs[j].chunks) \cap JobPaths(k) = {}
    /\ \A f, g \in upload_dir : f.path = g.path => f.owner = g.owner
    /\ \A j \in DOMAIN dir_jobs :
          dir_jobs[j].pc = "split" =>
              \A i \in DOMAIN dir_jobs[j].chunks :
                  DirFile(dir_jobs[j].chunks[i], j) \in upload_dir

\* two jobs have split uploads of the same name at the same time
C24_Witness ==
    /\ dir_jobs[1].pc = "split"
    /\ dir_jobs[2].pc = "split"
    /\ dir_jobs[1].id # dir_jobs[2].id
    /\ Len(dir_jobs[1].chunks) = 2
    /\ Len(dir_jobs[2].chunks) = 2
    /\ SubSeq(dir_jobs[1].temp, 3, Len(dir_jobs[1].temp))
         = SubSeq(dir_jobs[2].temp, 3, Len(dir_jobs[2].temp))

\* C25 (SpecRec): an answer of get_progress carries a result exactly when
\* the status it reports is finished, an error message only when the status
\* is error, and finished = true exactly when the status is finished or
\* error.
C25_PollAnswer ==
    response.ok =>
        /\ response.result.ok <=> response.status = "finished"
        /\ response.error_message # "NULL" => response.status = "error"
        /\ response.finished <=> response.status \in {"finished", "error"}
        /\ response.result.ok => response.result.transcription_text.ok

\* the poller has the answer for a job that finished with the text a
C25_Witness ==
    /\ response.ok
    /\ response.status = "finished"
    /\ response.finished
    /\ response.result.ok
    /\ response.result.transcription_text = Some(<<"a">>)
    /\ response.error_message = "NULL"

C30_RecordFinal ==
    [][(status = "finished" \/ status = "error") => progress_log' = progress_log]_vars

\* C26 (Spec): whatever the backend answers, the retry helper makes at most
\* max_retries = 3 backend calls for a chunk, and the sleep after a failure
\* that is retried on attempt k is 2^(k-1) seconds: the sleeps of a chunk
\* are 1, 2, 4 in this order, one after each such attempt.
C26_RetryBackoff ==
    UsesRetryHelper =>
        \A i \in DOMAIN calls :
            /\ calls[i] <= 3
            /\ IsPrefix(slept[i], <<1, 2, 4>>)
            /\ Len(slept[i]) <= calls[i]
            /\ lastErr[i] = "transient" => Len(slept[i]) = calls[i]

\* a chunk whose three calls all failed with a transient error
C26_Witness ==
    /\ UsesRetryHelper
    /\ \E i \in DOMAIN calls :
          /\ calls[i] = 3
          /\ lastErr[i] = "transient"
          /\ slept[i] = <<1, 2, 4>>
          /\ task[i] = "done"
          /\ result[i] = None

\* C27 (Spec): when transcribe() returns for an unsplit asset whose last
\* backend call failed with a transient error, the backend was called
\* max_retries times, whichever backend client ran.
C27_UniformRetry ==
    [][((pc = "single" \/ pc = "single_call") /\ pc' = "check"
            /\ lastErr'[1] = "transient")
          => calls'[1] = max_retries]_vars

\* the search is between two passes for one nominal point
Searching == seg_pc \in {"quiet", "loud", "short"}

\* the passes made for the current nominal point: at most four, every
\* threshold in [CHUNK_SPLIT_STEP_MIN_DB, CHUNK_SPLIT_STEP_MAX_DB], at most
\* one with the shortened minimum silence duration
PassesBounded ==
    /\ Len(detect_calls) <= 4
    /\ \A k \in DOMAIN detect_calls :
          /\ detect_calls[k].noise_db >= CHUNK_SPLIT_STEP_MIN_DB
          /\ detect_calls[k].noise_db <= CHUNK_SPLIT_STEP_MAX_DB
          /\ detect_calls[k].min_silence_dur
                \in {CHUNK_SPLIT_MIN_SILENCE_DUR, short_silence_dur}
    /\ Cardinality({k \in DOMAIN detect_calls :
                       detect_calls[k].min_silence_dur = short_silence_dur}) <= 1

\* C28 (SpecSegLive): for every nominal point and every outcome of the
\* silence detections the adaptive search makes at most 4 passes, with
\* thresholds inside [-45 dB, -20 dB] and the minimum silence duration
\* shortened at most once, and the search for the point ends.
C28_SearchTerminates ==
    /\ []PassesBounded
    /\ Searching ~> ~Searching
    /\ <>(seg_pc = "done")

\* four passes for one point: -30, -25, -20 dB and the shortened pass
C28_Witness ==
    /\ Len(detect_calls) = 4
    /\ detect_calls[1].noise_db = CHUNK_SPLIT_NOISE_DB
    /\ detect_calls[4] = DetectCall(CHUNK_SPLIT_STEP_MAX_DB, short_silence_dur)
    /\ ~Searching

\* C31 (Spec): in the GPT-4o client a response at the output token limit is
\* the text of the chunk only when it came on the last of the max_retries
\* attempts; on an earlier attempt it is followed by the backoff sleep and
\* the next attempt, counted in the same budget.
C31_TokenLimitRetried ==
    req.api_choice = "gpt4o" =>
        \A i \in DOMAIN calls :
            lastErr[i] = "toklimit" =>
                /\ result[i].ok <=> calls[i] = max_retries
                /\ calls[i] <= max_retries
                /\ calls[i] < max_retries =>
                      /\ task[i] = "running"
                      /\ Len(slept[i]) = calls[i]

\* a chunk whose first two responses hit the limit and were retried, and
\* whose third response, at the limit again, became its text
C31_Witness ==
    /\ req.api_choice = "gpt4o"
    /\ \E i \in DOMAIN calls :
          /\ lastErr[i] = "toklimit"
          /\ calls[i] = max_retries
          /\ slept[i] = <<1, 2>>
          /\ task[i] = "done"
          /\ result[i] = Some(<<Letter(i)>>)

\* C32 (SpecW): the Whisper client calls the chunks one at a time in index
\* order, the call for chunk k+1 comes after the text of chunk k, no chunk
\* is called after a failed one, and for the language "auto" only the call
\* for chunk 1 asks for detection: every later call names a language.
C32_WhisperSequential ==
    /\ \A k \in DOMAIN wh_sent : wh_sent[k].chunk = k
    /\ Len(wh_sent) <= total_chunks
    /\ Len(wh_sent) = Len(transcription_texts)
                        + (IF wh_pc \in {"call", "failed"} THEN 1 ELSE 0)
    /\ requested_language = "auto" =>
          \A k \in DOMAIN wh_sent :
              /\ wh_sent[k].language = "auto" <=> k = 1
              /\ wh_sent[k].response_format = "verbose_json" <=> k = 1

\* the plan of compute_smart_segment_times_deep has been returned
PlanReturned == seg_asset.direct /\ seg_pc \in {"split", "done"}

\* the lengths of the chunks the plan cuts the asset into
PlanLengths ==
    LET r == ChunkRanges(final_points_ms, seg_asset.total_len_ms)
    IN  [i \in DOMAIN r |-> r[i].end_ms - r[i].start_ms]

\* C33 (SpecSeg): for every duration and every outcome of the silence
\* detections, every chunk of the plan is at most CHUNK_LENGTH_MS + back
\* window + forward window + CHUNK_MIN_LENGTH_MS = 580 s long, and the
\* re-clip drops at most one cut, the last one.
C33_PlanChunkBound ==
    PlanReturned =>
        /\ \A i \in DOMAIN PlanLengths :
              PlanLengths[i] <= CHUNK_LENGTH_MS + CHUNK_SPLIT_BACK_WINDOW_SEC * 1000
                                  + CHUNK_SPLIT_FORWARD_WINDOW_SEC * 1000
                                  + CHUNK_MIN_LENGTH_MS
        /\ Len(final_points_ms) >= Len(adjusted_points_ms) - 1

\* a plan of two nominal points whose last cut was dropped, with a last
\* chunk longer than CHUNK_LENGTH_MS + the back window
C33_Witness ==
    /\ PlanReturned
    /\ Len(adjusted_points_ms) = 2
    /\ Len(final_points_ms) = 1
    /\ PlanLengths[2] > CHUNK_LENGTH_MS + CHUNK_SPLIT_BACK_WINDOW_SEC * 1000

\* C34 (Spec): when process_transcription has returned, whatever the outcome,
\* neither the upload nor any audio file written by the extraction from a
\* video upload is left on disk.
C34_TempFilesRemoved ==
    pc = "done" => tempfiles = {}

\* C35 (SpecLegacy): under any interleaving of concurrent /api/transcribe
\* requests, the number of registered jobs that are not finished never
\* exceeds MAX_ACTIVE_JOBS.
C35_ActiveJobsBounded ==
    active_jobs(legacy_jobs) <= MAX_ACTIVE_JOBS

\* a worker between its check of the schema and its release
InSection(w) == worker_pc[w] \in {"check", "schema", "release"}

\* C36 (SpecLock): whichever path _acquire_file_lock takes, at most one
\* worker is between its check of the schema and its release, at most one
\* worker runs the schema creation, and a worker that checks after another
\* one has left the section finds the table.
C36_InitExclusive ==
    /\ Cardinality({w \in DOMAIN worker_pc : InSection(w)}) <= 1
    /\ Cardinality(initialized_by) <= 1

====
